---------------------------- MODULE Spec2Model ----------------------------
(***************************************************************************)
(* Model of the voice-assistant orchestration core of assidenter           *)
(* (src-tauri/src/lib.rs and src-tauri/src/services/{asr,llm,tts}.rs).     *)
(*                                                                         *)
(* Every inbound tauri command runs as its own task on a multi-threaded    *)
(* runtime.  A task is modelled by its program counter pc[t]; one action   *)
(* is one atomic piece of a command: the code between two suspension       *)
(* points (a guard acquisition, a network round trip) or one atomic        *)
(* memory operation on the listening flag.                                 *)
(*                                                                         *)
(* Texts are sequences of one-character strings, byte buffers are          *)
(* sequences of numbers 0..255, Option<T> is a sequence of length <= 1.    *)
(***************************************************************************)
EXTENDS Integers, Sequences, FiniteSets, TLC

\* ------------------------------------------------------------------ bounds
NumTasks == 2
MaxCmds == 2
MaxSeqCmds == 3

Tasks == 1..NumTasks
NoOwner == 0

\* ------------------------------------------------------------- Option<T>
None == <<>>
Some(x) == <<x>>

\* ------------------------------------------------------------ str::trim
IsWhitespace(c) == c \in {" ", "\t", "\n"}

RECURSIVE trim_start(_)
trim_start(s) ==
    IF s = <<>> \/ ~IsWhitespace(Head(s)) THEN s ELSE trim_start(Tail(s))

RECURSIVE trim_end(_)
trim_end(s) ==
    IF s = <<>> \/ ~IsWhitespace(s[Len(s)]) THEN s
    ELSE trim_end(SubSeq(s, 1, Len(s) - 1))

trim(s) == trim_end(trim_start(s))

\* --------------------------------------------- base64 (STANDARD engine)
B64Alphabet ==
    << "A","B","C","D","E","F","G","H","I","J","K","L","M","N","O","P",
       "Q","R","S","T","U","V","W","X","Y","Z","a","b","c","d","e","f",
       "g","h","i","j","k","l","m","n","o","p","q","r","s","t","u","v",
       "w","x","y","z","0","1","2","3","4","5","6","7","8","9","+","/" >>

B64Pad == "="

B64Char(n) == B64Alphabet[n + 1]

IsB64Char(c) == \E i \in 1..64 : B64Alphabet[i] = c

B64Index(c) == (CHOOSE i \in 1..64 : B64Alphabet[i] = c) - 1

RECURSIVE base64_encode(_)
base64_encode(b) ==
    IF Len(b) = 0 THEN <<>>
    ELSE IF Len(b) = 1 THEN
        << B64Char(b[1] \div 4), B64Char((b[1] % 4) * 16), B64Pad, B64Pad >>
    ELSE IF Len(b) = 2 THEN
        << B64Char(b[1] \div 4),
           B64Char((b[1] % 4) * 16 + (b[2] \div 16)),
           B64Char((b[2] % 16) * 4),
           B64Pad >>
    ELSE
        << B64Char(b[1] \div 4),
           B64Char((b[1] % 4) * 16 + (b[2] \div 16)),
           B64Char((b[2] % 16) * 4 + (b[3] \div 64)),
           B64Char(b[3] % 64) >>
        \o base64_encode(SubSeq(b, 4, Len(b)))

B64Error == [ok |-> FALSE, bytes |-> <<>>]

\* Canonical padding is required and trailing bits must be zero.
RECURSIVE base64_decode(_)
base64_decode(s) ==
    IF s = <<>> THEN [ok |-> TRUE, bytes |-> <<>>]
    ELSE IF Len(s) < 4 THEN B64Error
    ELSE
        LET rest == SubSeq(s, 5, Len(s)) IN
        IF \A i \in 1..4 : IsB64Char(s[i]) THEN
            LET a == B64Index(s[1])
                b == B64Index(s[2])
                c == B64Index(s[3])
                d == B64Index(s[4])
                r == base64_decode(rest)
            IN  IF r.ok
                THEN [ok |-> TRUE,
                      bytes |-> << a * 4 + (b \div 16),
                                   (b % 16) * 16 + (c \div 4),
                                   (c % 4) * 64 + d >> \o r.bytes]
                ELSE B64Error
        ELSE IF rest # <<>> THEN B64Error
        ELSE IF /\ IsB64Char(s[1]) /\ IsB64Char(s[2]) /\ IsB64Char(s[3])
                /\ s[4] = B64Pad
                /\ B64Index(s[3]) % 4 = 0
        THEN [ok |-> TRUE,
              bytes |-> << B64Index(s[1]) * 4 + (B64Index(s[2]) \div 16),
                           (B64Index(s[2]) % 16) * 16 + (B64Index(s[3]) \div 4) >>]
        ELSE IF /\ IsB64Char(s[1]) /\ IsB64Char(s[2])
                /\ s[3] = B64Pad /\ s[4] = B64Pad
                /\ B64Index(s[2]) % 16 = 0
        THEN [ok |-> TRUE,
              bytes |-> << B64Index(s[1]) * 4 + (B64Index(s[2]) \div 16) >>]
        ELSE B64Error

\* ------------------------------------------------------ JSON and HTTP
\* A JSON value as serde_json indexing sees it: indexing a missing key gives
\* Null, so an object is a record whose absent members are JNull.
JNull == [t |-> "null", s |-> <<>>, n |-> 0]
JStr(x) == [t |-> "str", s |-> x, n |-> 0]
JNum(x) == [t |-> "num", s |-> <<>>, n |-> x]

\* Value::as_str and Value::as_f64
as_str(v) == IF v.t = "str" THEN Some(v.s) ELSE None
as_f64(v) == IF v.t = "num" THEN Some(v.n) ELSE None

unwrap_or(opt, dflt) == IF opt = None THEN dflt ELSE opt[1]

\* An HTTP exchange: the transport fails, or a response arrives with a status,
\* a content-type header and a body; the body is raw bytes that may or may
\* not parse as JSON (json = Some(object)).
TransportError ==
    [sent |-> FALSE, status |-> 0, content_type |-> "", complete |-> FALSE,
     raw |-> <<>>, json |-> None]
HttpResponse(st, ct, raw, json) ==
    [sent |-> TRUE, status |-> st, content_type |-> ct, complete |-> TRUE,
     raw |-> raw, json |-> json]
\* Status and headers arrive, then the connection breaks while the body is read.
BrokenResponse(st, ct) ==
    [sent |-> TRUE, status |-> st, content_type |-> ct, complete |-> FALSE,
     raw |-> <<>>, json |-> None]

is_success(status) == status >= 200 /\ status <= 299

\* A request to "{server_url}/path" with an empty base is not a URL: the
\* client's send() fails before anything reaches the network.
Reachable(server_url, resp) == server_url # "" \/ ~resp.sent

\* ------------------------------------------------------------- asr.rs
WhisperConfigDefault ==
    [server_url |-> "http://localhost:9090", language |-> "auto",
     model |-> "whisper-large-v3"]

NoTranscription ==
    [text |-> <<>>, language |-> None, duration |-> None, is_final |-> FALSE]

\* Mutant: an answer without a text is an error.
transcribe_wav_requires_text(resp) ==
    IF ~resp.sent THEN
        [ok |-> FALSE, err |-> "Failed to send transcription request",
         value |-> NoTranscription]
    ELSE IF ~is_success(resp.status) THEN
        [ok |-> FALSE, err |-> "Transcription failed with status",
         value |-> NoTranscription]
    ELSE IF resp.json = None \/ as_str(resp.json[1].text) = None THEN
        [ok |-> FALSE, err |-> "Failed to parse transcription response",
         value |-> NoTranscription]
    ELSE
        LET result == resp.json[1] IN
        [ok |-> TRUE, err |-> "",
         value |-> [text |-> unwrap_or(as_str(result.text), <<>>),
                    language |-> as_str(result.language),
                    duration |-> as_f64(result.duration),
                    is_final |-> TRUE]]

transcribe_wav(resp) ==
    IF ~resp.sent THEN
        [ok |-> FALSE, err |-> "Failed to send transcription request",
         value |-> NoTranscription]
    ELSE IF ~is_success(resp.status) THEN
        [ok |-> FALSE, err |-> "Transcription failed with status",
         value |-> NoTranscription]
    ELSE IF resp.json = None THEN
        [ok |-> FALSE, err |-> "Failed to parse transcription response",
         value |-> NoTranscription]
    ELSE
        LET result == resp.json[1] IN
        [ok |-> TRUE, err |-> "",
         value |-> [text |-> unwrap_or(as_str(result.text), <<>>),
                    language |-> as_str(result.language),
                    duration |-> as_f64(result.duration),
                    is_final |-> TRUE]]

\* u32, u16 and i16 values as their to_le_bytes(): a u32 is kept as its four
\* bytes throughout, so that the arithmetic on it has the width of the code.
U32(n) ==
    << n % 256, (n \div 256) % 256, (n \div 65536) % 256,
       (n \div 16777216) % 256 >>
U16(n) == << n % 256, (n \div 256) % 256 >>
I16(sample) == U16((sample + 65536) % 65536)

\* u32 + u32: the wrapped sum, and whether the sum left the 32 bits.
add_u32(a, b) ==
    LET s1 == a[1] + b[1]
        s2 == a[2] + b[2] + (s1 \div 256)
        s3 == a[3] + b[3] + (s2 \div 256)
        s4 == a[4] + b[4] + (s3 \div 256)
    IN  [value |-> << s1 % 256, s2 % 256, s3 % 256, s4 % 256 >>,
         overflow |-> s4 >= 256]

RECURSIVE sample_bytes(_)
sample_bytes(samples) ==
    IF samples = <<>> THEN <<>>
    ELSE I16(Head(samples)) \o sample_bytes(Tail(samples))

RiffTag == << 82, 73, 70, 70 >>
WaveTag == << 87, 65, 86, 69 >>
FmtTag == << 102, 109, 116, 32 >>
DataTag == << 100, 97, 116, 97 >>

NoWavOut == [panicked |-> FALSE, bytes |-> <<>>]
NoWav ==
    [samples |-> <<>>, sample_rate |-> U32(0), overflow_checks |-> FALSE,
     called |-> FALSE, out |-> NoWavOut]

\* samples_to_wav.  data_size + 36 and sample_rate * 2 are u32 arithmetic: on
\* overflow a build with overflow checks panics, one without them wraps.
samples_to_wav(samples, sample_rate, overflow_checks) ==
    LET data_size == U32(Len(samples) * 2)
        file_size == add_u32(data_size, U32(36))
        byte_rate == add_u32(sample_rate, sample_rate)
    IN  IF overflow_checks /\ (file_size.overflow \/ byte_rate.overflow)
        THEN [panicked |-> TRUE, bytes |-> <<>>]
        ELSE [panicked |-> FALSE,
              bytes |-> RiffTag \o file_size.value \o WaveTag
                        \o FmtTag \o U32(16) \o U16(1) \o U16(1)
                        \o sample_rate \o byte_rate.value \o U16(2) \o U16(16)
                        \o DataTag \o data_size \o sample_bytes(samples)]

\* ------------------------------------------------------------- llm.rs
QwenConfigDefault ==
    [server_url |-> "http://localhost:8080", model |-> "qwen-0.5b",
     max_tokens |-> 512,
     system_prompt |-> "You are a helpful AI assistant. Respond concisely and helpfully."]

\* ChatMessage.  The system prompt is a configuration string, user and
\* assistant contents are texts; prompt carries the former, content the latter.
SystemMessage(prompt) == [role |-> "system", prompt |-> prompt, content |-> <<>>]
UserMessage(text) == [role |-> "user", prompt |-> "", content |-> text]
AssistantMessage(text) == [role |-> "assistant", prompt |-> "", content |-> text]

NoLLMResponse == [text |-> <<>>, finish_reason |-> None]

\* Mutant: the system prompt is stored as the first message of a conversation.
chat_request_stores_system(history, config, user_message) ==
    LET started == IF history = <<>>
                   THEN <<SystemMessage(config.system_prompt)>> ELSE history
        pushed == Append(started, UserMessage(user_message))
    IN  [history |-> pushed, messages |-> pushed]

\* QwenLLM::chat up to the point where the request is sent: the user message
\* is pushed and the outbound list is the system prompt followed by history.
chat_request(history, config, user_message) ==
    LET pushed == Append(history, UserMessage(user_message)) IN
    [history |-> pushed,
     messages |-> <<SystemMessage(config.system_prompt)>> \o pushed]

\* Mutant: an empty assistant content is not appended to the history.
chat_response_skips_empty(history, resp) ==
    IF ~resp.sent THEN
        [ok |-> FALSE, err |-> "Failed to send LLM request",
         history |-> history, value |-> NoLLMResponse]
    ELSE IF ~is_success(resp.status) THEN
        [ok |-> FALSE, err |-> "LLM request failed with status",
         history |-> history, value |-> NoLLMResponse]
    ELSE IF resp.json = None THEN
        [ok |-> FALSE, err |-> "Failed to parse LLM response",
         history |-> history, value |-> NoLLMResponse]
    ELSE
        LET result == resp.json[1]
            assistant_message == unwrap_or(as_str(result.content), <<>>)
        IN  [ok |-> TRUE, err |-> "",
             history |-> IF assistant_message = <<>> THEN history
                         ELSE Append(history, AssistantMessage(assistant_message)),
             value |-> [text |-> assistant_message,
                        finish_reason |-> as_str(result.finish_reason)]]

\* Mutant: a failed call takes its user message back out of the history.
chat_response_pops_on_failure(history, resp) ==
    IF ~resp.sent \/ ~is_success(resp.status) \/ resp.json = None THEN
        [ok |-> FALSE, err |-> "LLM request failed",
         history |-> SubSeq(history, 1, Len(history) - 1),
         value |-> NoLLMResponse]
    ELSE
        LET result == resp.json[1]
            assistant_message == unwrap_or(as_str(result.content), <<>>)
        IN  [ok |-> TRUE, err |-> "",
             history |-> Append(history, AssistantMessage(assistant_message)),
             value |-> [text |-> assistant_message,
                        finish_reason |-> as_str(result.finish_reason)]]

\* QwenLLM::chat from the response on.
chat_response(history, resp) ==
    IF ~resp.sent THEN
        [ok |-> FALSE, err |-> "Failed to send LLM request",
         history |-> history, value |-> NoLLMResponse]
    ELSE IF ~is_success(resp.status) THEN
        [ok |-> FALSE, err |-> "LLM request failed with status",
         history |-> history, value |-> NoLLMResponse]
    ELSE IF resp.json = None THEN
        [ok |-> FALSE, err |-> "Failed to parse LLM response",
         history |-> history, value |-> NoLLMResponse]
    ELSE
        LET result == resp.json[1]
            assistant_message == unwrap_or(as_str(result.content), <<>>)
            finish_reason == as_str(result.finish_reason)
        IN  [ok |-> TRUE, err |-> "",
             history |-> Append(history, AssistantMessage(assistant_message)),
             value |-> [text |-> assistant_message,
                        finish_reason |-> finish_reason]]

\* Mutant: the clear keeps the oldest message.
clear_history_keeps_first(history) ==
    IF history = <<>> THEN <<>> ELSE <<Head(history)>>

clear_history(history) == <<>>

\* str::lines on one network chunk: split at line feeds, a carriage return
\* before the line feed goes with it, a last line without line feed counts.
IndexOfNewline(s) ==
    IF \E i \in DOMAIN s : s[i] = "\n"
    THEN CHOOSE i \in DOMAIN s : s[i] = "\n" /\ \A j \in 1..(i - 1) : s[j] # "\n"
    ELSE 0

strip_cr(line) ==
    IF line # <<>> /\ line[Len(line)] = "\r"
    THEN SubSeq(line, 1, Len(line) - 1) ELSE line

RECURSIVE lines(_)
lines(text) ==
    IF text = <<>> THEN <<>>
    ELSE LET k == IndexOfNewline(text) IN
         IF k = 0 THEN <<text>>
         ELSE <<strip_cr(SubSeq(text, 1, k - 1))>>
              \o lines(SubSeq(text, k + 1, Len(text)))

starts_with(s, prefix) ==
    Len(s) >= Len(prefix) /\ SubSeq(s, 1, Len(prefix)) = prefix

DataPrefix == << "d", "a", "t", "a", ":", " " >>
DoneMarker == << "[", "D", "O", "N", "E", "]" >>

\* serde_json::from_str(data) followed by ["choices"][0]["delta"]["content"]
\* .as_str(), on compact documents: Some(content) for
\* {"choices":[{"delta":{"content":"<content>"}}]} with an escape-free
\* content; every other text is either no JSON or JSON without that string,
\* and both give None.
DeltaOpen ==
    << "{", "\"", "c", "h", "o", "i", "c", "e", "s", "\"", ":", "[", "{",
       "\"", "d", "e", "l", "t", "a", "\"", ":", "{",
       "\"", "c", "o", "n", "t", "e", "n", "t", "\"", ":", "\"" >>
DeltaClose == << "\"", "}", "}", "]", "}" >>

delta_content(data) ==
    LET n == Len(data)
        a == Len(DeltaOpen)
        z == Len(DeltaClose)
    IN  IF /\ n >= a + z
           /\ SubSeq(data, 1, a) = DeltaOpen
           /\ SubSeq(data, n - z + 1, n) = DeltaClose
           /\ \A i \in (a + 1)..(n - z) : data[i] \notin {"\"", "\\"}
        THEN Some(SubSeq(data, a + 1, n - z))
        ELSE None

\* Mutant: the end marker is skipped like any other line that carries no text.
RECURSIVE chat_stream_chunk_done_continues(_)
chat_stream_chunk_done_continues(ls) ==
    IF ls = <<>> THEN <<>>
    ELSE
        LET line == Head(ls) IN
        IF starts_with(line, DataPrefix) THEN
            LET content == delta_content(SubSeq(line, 7, Len(line))) IN
            (IF content = None THEN <<>> ELSE <<content[1]>>)
            \o chat_stream_chunk_done_continues(Tail(ls))
        ELSE chat_stream_chunk_done_continues(Tail(ls))

\* Mutant: a line that is no data line ends the chunk.
RECURSIVE chat_stream_chunk_stops_at_other_line(_)
chat_stream_chunk_stops_at_other_line(ls) ==
    IF ls = <<>> THEN <<>>
    ELSE
        LET line == Head(ls) IN
        IF starts_with(line, DataPrefix) THEN
            LET data == SubSeq(line, 7, Len(line)) IN
            IF data = DoneMarker THEN <<>>
            ELSE
                LET content == delta_content(data) IN
                (IF content = None THEN <<>> ELSE <<content[1]>>)
                \o chat_stream_chunk_stops_at_other_line(Tail(ls))
        ELSE <<>>

\* chat_stream's loop over the lines of one chunk: the contents it appends to
\* full_response and hands to on_chunk, in order; [DONE] breaks the loop.
RECURSIVE chat_stream_chunk(_)
chat_stream_chunk(ls) ==
    IF ls = <<>> THEN <<>>
    ELSE
        LET line == Head(ls) IN
        IF starts_with(line, DataPrefix) THEN
            LET data == SubSeq(line, 7, Len(line)) IN
            IF data = DoneMarker THEN <<>>
            ELSE
                LET content == delta_content(data) IN
                (IF content = None THEN <<>> ELSE <<content[1]>>)
                \o chat_stream_chunk(Tail(ls))
        ELSE chat_stream_chunk(Tail(ls))

\* String::push_str over a sequence of texts.
RECURSIVE push_all(_, _)
push_all(acc, texts) ==
    IF texts = <<>> THEN acc ELSE push_all(acc \o Head(texts), Tail(texts))

\* ------------------------------------------------------------- tts.rs
VoxCPMConfigDefault ==
    [server_url |-> "http://localhost:5500", voice |-> "default",
     speed |-> 1, sample_rate |-> 22050]

NoTTSResult ==
    [audio_data |-> <<>>, sample_rate |-> 0, duration |-> [num |-> 0, den |-> 1]]

\* Mutant: the header must be the media type alone.
contains_application_json_exact(content_type) ==
    content_type = "application/json"

\* content_type.contains("application/json"); the header values of the model
\* are whole tokens, so containment is membership in the tokens that contain it.
contains_application_json(content_type) ==
    content_type \in {"application/json", "application/json; charset=utf-8"}

\* duration is the quotient num / den (an f64 in the code).
synthesize(config, resp) ==
    IF ~resp.sent THEN
        [ok |-> FALSE, err |-> "Failed to send TTS request", value |-> NoTTSResult]
    ELSE IF ~is_success(resp.status) THEN
        [ok |-> FALSE, err |-> "TTS request failed with status", value |-> NoTTSResult]
    ELSE
        LET TTSOk(audio_data) ==
                [ok |-> TRUE, err |-> "",
                 value |-> [audio_data |-> audio_data,
                            sample_rate |-> config.sample_rate,
                            duration |-> [num |-> Len(audio_data),
                                          den |-> config.sample_rate * 2]]]
        IN
        IF contains_application_json(resp.content_type) THEN
            IF resp.json = None THEN
                [ok |-> FALSE, err |-> "Failed to parse TTS response",
                 value |-> NoTTSResult]
            ELSE
                LET audio_base64 == as_str(resp.json[1].audio) IN
                IF audio_base64 = None THEN
                    [ok |-> FALSE, err |-> "Missing audio data in response",
                     value |-> NoTTSResult]
                ELSE
                    LET decoded == base64_decode(audio_base64[1]) IN
                    IF ~decoded.ok THEN
                        [ok |-> FALSE, err |-> "Failed to decode audio data",
                         value |-> NoTTSResult]
                    ELSE TTSOk(decoded.bytes)
        ELSE IF ~resp.complete THEN
            [ok |-> FALSE, err |-> "Failed to read audio bytes",
             value |-> NoTTSResult]
        ELSE TTSOk(resp.raw)

\* ------------------------------------------- inputs and server answers
\* Byte buffers: the recording the frontend sends, the audio the TTS
\* server answers with.
Audio1 == <<82>>
Audio2 == <<1, 2>>

\* process_audio's argument: a well-formed encoding and a malformed one
\* (non-zero trailing bits).
AudioInputs ==
    { base64_encode(Audio1), <<"U", "h", "=", "=">> }

\* send_text_message's argument: a whitespace-only message and a word.
Messages == { <<" ">>, <<"h", "i">> }

\* configure_services' argument.
ServiceConfigs ==
    { [asr_url |-> "http://a", llm_url |-> "http://b", tts_url |-> "http://c"],
      [asr_url |-> "", llm_url |-> "", tts_url |-> "http://z"] }

RawJson == <<123, 125>>
RawGarbage == <<60>>

AsrBody(text, language, duration) ==
    Some([text |-> text, language |-> language, duration |-> duration])

AsrResponses ==
    { TransportError,
      HttpResponse(500, "text/plain", RawGarbage, None),
      HttpResponse(200, "application/json", RawJson, AsrBody(JNull, JNull, JNull)),
      HttpResponse(200, "application/json", RawJson,
                   AsrBody(JStr(<<" ">>), JStr(<<"e", "n">>), JNull)),
      HttpResponse(200, "application/json", RawJson,
                   AsrBody(JStr(<<"h", "i">>), JNull, JNum(2))) }

LlmBody(content, finish_reason) ==
    Some([content |-> content, finish_reason |-> finish_reason])

LlmResponses ==
    { TransportError,
      HttpResponse(500, "text/plain", RawGarbage, None),
      HttpResponse(200, "application/json", RawJson, LlmBody(JNull, JNull)),
      HttpResponse(200, "application/json", RawJson,
                   LlmBody(JStr(<<"o", "k">>), JStr(<<"s", "t", "o", "p">>))) }

TtsBody(audio) == Some([audio |-> audio])

TtsResponses ==
    { TransportError,
      HttpResponse(500, "text/plain", RawGarbage, None),
      HttpResponse(200, "application/json", RawJson,
                   TtsBody(JStr(base64_encode(Audio2)))) }

\* ---------------------------------------------------------------- state
VARIABLES
    is_listening,           \* AppState.is_listening (AtomicBool)
    asr_config,             \* WhisperLiveKit.config
    llm_config,             \* QwenLLM.config
    tts_config,             \* VoxCPMTTS.config
    conversation_history,   \* QwenLLM.conversation_history
    asr_guard,              \* owner of AppState.asr (Mutex), NoOwner when free
    llm_guard,              \* owner of AppState.llm
    tts_guard,              \* owner of AppState.tts
    pc,                     \* each task's position in its command
    cmd,                    \* each task's command and arguments
    locals,                 \* each task's local variables
    outbound,               \* messages of each task's latest LLM request
    result,                 \* what each task's command returned
    trace,                  \* what each task's command emitted and called, in order
    invoked,                \* number of commands invoked so far
    failed,                 \* history variable: the stage whose call failed, per task
    chat_entry,             \* history variable: see ChatEntered
    ok_starts,              \* history variable: see start_listening_store
    stop_seen,              \* history variable: see stop_listening
    cleared,                \* history variable: see HistoryCleared
    stream_pc,              \* position of the chat_stream call
    stream_user,            \* chat_stream's user_message
    stream_messages,        \* messages of the chat_stream request
    stream_rest,            \* chunks of the response body not yet received
    full_response,          \* chat_stream's accumulator
    on_chunk,               \* arguments of the on_chunk calls, in order
    stream_result,          \* what chat_stream returned
    stream_entry,           \* history variable: the history chat_stream found
    stream_seen,            \* history variable: the chunks received so far
    probe,                  \* a client function applied to one server answer
    wav                     \* samples_to_wav applied to one buffer and rate

vars ==
    << is_listening, asr_config, llm_config, tts_config, conversation_history,
       asr_guard, llm_guard, tts_guard, pc, cmd, locals, outbound, result,
       trace, invoked, failed, chat_entry, ok_starts, stop_seen, cleared,
       stream_pc, stream_user, stream_messages, stream_rest, full_response,
       on_chunk, stream_result, stream_entry, stream_seen, probe, wav >>

configs == << asr_config, llm_config, tts_config >>
guards == << asr_guard, llm_guard, tts_guard >>
ghosts == << failed, chat_entry, ok_starts, stop_seen, cleared >>
app_vars ==
    << is_listening, asr_config, tts_config, asr_guard, llm_guard, tts_guard,
       pc, cmd, locals, outbound, result, trace, failed, chat_entry,
       ok_starts, stop_seen, cleared >>
stream_vars ==
    << stream_pc, stream_user, stream_messages, stream_rest, full_response,
       on_chunk, stream_result, stream_entry, stream_seen >>

\* ------------------------------------------------- notifications, calls
EmitUnit(name) == [kind |-> "emit", name |-> name, lit |-> "", text |-> <<>>]
EmitStatus(status) ==
    [kind |-> "emit", name |-> "processing-status", lit |-> status, text |-> <<>>]
EmitText(name, text) == [kind |-> "emit", name |-> name, lit |-> "", text |-> text]
\* A request issued to stage's endpoint under base URL url, carrying text.
Call(stage, url, text) == [kind |-> "call", name |-> stage, lit |-> url, text |-> text]

\* ------------------------------------------------------ command results
NoValue ==
    [status |-> "", transcription |-> None, response |-> None,
     audio_ready |-> FALSE, flag |-> FALSE]
Pending == [tag |-> "Pending", err |-> "", value |-> NoValue]
Err(msg) == [tag |-> "Err", err |-> msg, value |-> NoValue]
OkUnit == [tag |-> "Ok", err |-> "", value |-> NoValue]
OkBool(b) == [tag |-> "Ok", err |-> "", value |-> [NoValue EXCEPT !.flag = b]]
\* Mutant: audio_ready is set whatever the turn produced.
ProcessingResult_always_ready(status, transcription, response, audio_ready) ==
    [tag |-> "Ok", err |-> "",
     value |-> [status |-> status, transcription |-> transcription,
                response |-> response, audio_ready |-> TRUE,
                flag |-> FALSE]]

ProcessingResult(status, transcription, response, audio_ready) ==
    [tag |-> "Ok", err |-> "",
     value |-> [status |-> status, transcription |-> transcription,
                response |-> response, audio_ready |-> audio_ready,
                flag |-> FALSE]]

NoConfig == [asr_url |-> "", llm_url |-> "", tts_url |-> ""]
NoCmd == [name |-> "", text |-> <<>>, config |-> NoConfig]
NoLocals ==
    [audio_data |-> <<>>, transcribed_text |-> <<>>, response_text |-> <<>>,
     tts_audio |-> <<>>]
NoChatEntry == [active |-> FALSE, history |-> <<>>]
NeverCleared == [phase |-> "none", wiped |-> 0]

NoStreamResult == [tag |-> "Pending", err |-> "", value |-> NoLLMResponse]
NoOut == [ok |-> FALSE, err |-> ""]
NoProbe == [stage |-> "", resp |-> TransportError, out |-> NoOut]

\* AppState::new
AppStateNew ==
    /\ is_listening = FALSE
    /\ asr_config = WhisperConfigDefault
    /\ llm_config = QwenConfigDefault
    /\ tts_config = VoxCPMConfigDefault
    /\ conversation_history = <<>>
    /\ asr_guard = NoOwner
    /\ llm_guard = NoOwner
    /\ tts_guard = NoOwner
    /\ pc = [t \in Tasks |-> "idle"]
    /\ cmd = [t \in Tasks |-> NoCmd]
    /\ locals = [t \in Tasks |-> NoLocals]
    /\ outbound = [t \in Tasks |-> <<>>]
    /\ result = [t \in Tasks |-> Pending]
    /\ trace = [t \in Tasks |-> <<>>]
    /\ invoked = 0
    /\ failed = [t \in Tasks |-> ""]
    /\ chat_entry = [t \in Tasks |-> NoChatEntry]
    /\ ok_starts = 0
    /\ stop_seen = [t \in Tasks |-> FALSE]
    /\ cleared = NeverCleared

\* No chat_stream call has been made.
StreamIdle ==
    /\ stream_pc = "idle"
    /\ stream_user = <<>>
    /\ stream_messages = <<>>
    /\ stream_rest = <<>>
    /\ full_response = <<>>
    /\ on_chunk = <<>>
    /\ stream_result = NoStreamResult
    /\ stream_entry = <<>>
    /\ stream_seen = <<>>

Init == AppStateNew /\ StreamIdle /\ probe = NoProbe /\ wav = NoWav

\* ---------------------------------------------------- the command surface
CommandNames ==
    { "start_listening", "stop_listening", "is_listening", "process_audio",
      "configure_services", "clear_conversation", "send_text_message" }

Commands ==
    { [name |-> n, text |-> <<>>, config |-> NoConfig] :
        n \in { "start_listening", "stop_listening", "is_listening",
                "clear_conversation" } }
    \cup { [name |-> "process_audio", text |-> a, config |-> NoConfig] :
            a \in AudioInputs }
    \cup { [name |-> "send_text_message", text |-> m, config |-> NoConfig] :
            m \in Messages }
    \cup { [name |-> "configure_services", text |-> <<>>, config |-> c] :
            c \in ServiceConfigs }

\* The frontend invokes a command: a task starts at the command's first line.
\* Tasks that never ran are identical, so they are taken in order.
Invoke(t) ==
    /\ pc[t] \in {"idle", "done"}
    /\ \A u \in Tasks : u < t => pc[u] # "idle"
    /\ invoked < MaxCmds
    /\ \E c \in Commands :
        /\ cmd' = [cmd EXCEPT ![t] = c]
        /\ pc' = [pc EXCEPT ![t] = c.name]
    /\ invoked' = invoked + 1
    /\ locals' = [locals EXCEPT ![t] = NoLocals]
    /\ outbound' = [outbound EXCEPT ![t] = <<>>]
    /\ result' = [result EXCEPT ![t] = Pending]
    /\ trace' = [trace EXCEPT ![t] = <<>>]
    /\ failed' = [failed EXCEPT ![t] = ""]
    /\ chat_entry' = [chat_entry EXCEPT ![t] = NoChatEntry]
    /\ stop_seen' = [stop_seen EXCEPT ![t] = FALSE]
    /\ UNCHANGED << is_listening, configs, conversation_history, guards,
                    ok_starts, cleared >>

\* Task t's command returns r.
Return(t, r) ==
    /\ pc' = [pc EXCEPT ![t] = "done"]
    /\ result' = [result EXCEPT ![t] = r]

Goto(t, label) ==
    /\ pc' = [pc EXCEPT ![t] = label]
    /\ UNCHANGED result

Emit(t, events) == trace' = [trace EXCEPT ![t] = trace[t] \o events]

\* ------------------------------------------- start/stop/is_listening
\* Mutant: a second start while listening is a silent no-op.
start_listening_load_idempotent(t) ==
    /\ pc[t] = "start_listening"
    /\ IF is_listening
       THEN Return(t, OkUnit)
       ELSE Goto(t, "start_listening_store")
    /\ UNCHANGED << is_listening, configs, conversation_history, guards, cmd,
                    locals, outbound, trace, invoked, ghosts >>

\* start_listening, the load of the flag and the early return.
start_listening_load(t) ==
    /\ pc[t] = "start_listening"
    /\ IF is_listening
       THEN Return(t, Err("Already listening"))
       ELSE Goto(t, "start_listening_store")
    /\ UNCHANGED << is_listening, configs, conversation_history, guards, cmd,
                    locals, outbound, trace, invoked, ghosts >>

\* start_listening, the store of the flag, the notification and the return.
\* ok_starts counts the start_listening commands that returned Ok since the
\* last stop_listening and ran without a stop_listening in between.
start_listening_store(t) ==
    /\ pc[t] = "start_listening_store"
    /\ is_listening' = TRUE
    /\ Emit(t, <<EmitUnit("listening-started")>>)
    /\ Return(t, OkUnit)
    /\ ok_starts' = IF stop_seen[t] THEN ok_starts ELSE ok_starts + 1
    /\ UNCHANGED << configs, conversation_history, guards, cmd, locals,
                    outbound, invoked, failed, chat_entry, stop_seen, cleared >>

\* Mutant: stopping while not listening is an error, as starting while listening is.
stop_listening_checks(t) ==
    /\ pc[t] = "stop_listening"
    /\ is_listening' = FALSE
    /\ IF is_listening
       THEN Emit(t, <<EmitUnit("listening-stopped")>>) /\ Return(t, OkUnit)
       ELSE UNCHANGED trace /\ Return(t, Err("Not listening"))
    /\ ok_starts' = 0
    /\ stop_seen' = [u \in Tasks |->
                        stop_seen[u] \/ pc[u] \in {"start_listening",
                                                   "start_listening_store"}]
    /\ UNCHANGED << configs, conversation_history, guards, cmd, locals,
                    outbound, invoked, failed, chat_entry, cleared >>

\* stop_listening.  stop_seen marks the start_listening commands in flight.
stop_listening(t) ==
    /\ pc[t] = "stop_listening"
    /\ is_listening' = FALSE
    /\ Emit(t, <<EmitUnit("listening-stopped")>>)
    /\ Return(t, OkUnit)
    /\ ok_starts' = 0
    /\ stop_seen' = [u \in Tasks |->
                        stop_seen[u] \/ pc[u] \in {"start_listening",
                                                   "start_listening_store"}]
    /\ UNCHANGED << configs, conversation_history, guards, cmd, locals,
                    outbound, invoked, failed, chat_entry, cleared >>

\* is_listening (the command).
is_listening_command(t) ==
    /\ pc[t] = "is_listening"
    /\ Return(t, OkBool(is_listening))
    /\ UNCHANGED << is_listening, configs, conversation_history, guards, cmd,
                    locals, outbound, trace, invoked, ghosts >>

\* ------------------------------------------------------- guards (Mutex)
\* Mutant: the guard is handed out while another task holds it.
can_lock_always(guard) == TRUE

\* state.x.lock().await completes only when the guard is free.
can_lock(guard) == guard = NoOwner
lock(guard, t) == t
\* Mutant: the guard is kept for the rest of the command.
drop_never(guard) == guard

\* drop(x), also the implicit drop at an early return or at the end of scope.
drop(guard) == NoOwner

\* Mutant: the error of a stage is swallowed and the turn goes on.
propagates_never(r) == FALSE

\* The ? operator: an Err of the stage's call is returned at once.
propagates(r) == ~r.ok

\* ------------------------------------------------------ history variables
\* chat_entry[t] remembers the history as task t's chat call found it; clear
\* deactivates every entry, since positions in the history mean nothing then.
ChatEntered(t) ==
    [chat_entry EXCEPT ![t] = [active |-> TRUE, history |-> conversation_history]]

AllChatEntriesCleared ==
    [u \in Tasks |-> [chat_entry[u] EXCEPT !.active = FALSE]]

StageFailed(t, r, stage) ==
    [failed EXCEPT ![t] = IF r.ok THEN @ ELSE stage]

\* cleared follows the history from a clear on: phase is "cleared" from the
\* clear to the next chat call, "chatted" from that call to the one after it,
\* "none" otherwise; wiped is the number of messages the clear removed.
HistoryCleared == [phase |-> "cleared", wiped |-> Len(conversation_history)]

ChatAfterClear ==
    IF cleared.phase = "cleared" THEN [cleared EXCEPT !.phase = "chatted"]
    ELSE NeverCleared

\* ------------------------------------------------------- process_audio
\* Mutant: the emptiness test without the trim.
is_blank_untrimmed(text) == text = <<>>

\* The turn's emptiness test on the transcribed text.
is_blank(text) == trim(text) = <<>>

\* What process_audio emits between the ASR call and the LLM guard.
process_audio_asr_notifications(transcribed_text) ==
    IF is_blank(transcribed_text)
    THEN <<EmitText("transcription", transcribed_text)>>
    ELSE <<EmitText("transcription", transcribed_text), EmitStatus("Thinking...")>>

\* Mutant: the TTS stage is announced before the response is published.
process_audio_llm_notifications_swapped(response_text) ==
    <<EmitStatus("Generating audio..."), EmitText("llm-response", response_text)>>

\* What process_audio emits between the LLM call and the TTS guard.
process_audio_llm_notifications(response_text) ==
    <<EmitText("llm-response", response_text), EmitStatus("Generating audio...")>>

\* Mutant: the ASR stage is announced before the argument is decoded.
process_audio_decode_announces_first(t) ==
    /\ pc[t] = "process_audio"
    /\ LET decoded == base64_decode(cmd[t].text) IN
        IF ~decoded.ok
        THEN /\ Return(t, Err("Failed to decode audio"))
             /\ Emit(t, <<EmitStatus("Transcribing...")>>)
             /\ UNCHANGED locals
        ELSE /\ locals' = [locals EXCEPT ![t].audio_data = decoded.bytes]
             /\ Emit(t, <<EmitStatus("Transcribing...")>>)
             /\ Goto(t, "process_audio_asr_lock")
    /\ UNCHANGED << is_listening, configs, conversation_history, guards, cmd,
                    outbound, invoked, ghosts >>

\* process_audio: decode the argument, announce the ASR stage.
process_audio_decode(t) ==
    /\ pc[t] = "process_audio"
    /\ LET decoded == base64_decode(cmd[t].text) IN
        IF ~decoded.ok
        THEN /\ Return(t, Err("Failed to decode audio"))
             /\ UNCHANGED << locals, trace >>
        ELSE /\ locals' = [locals EXCEPT ![t].audio_data = decoded.bytes]
             /\ Emit(t, <<EmitStatus("Transcribing...")>>)
             /\ Goto(t, "process_audio_asr_lock")
    /\ UNCHANGED << is_listening, configs, conversation_history, guards, cmd,
                    outbound, invoked, ghosts >>

\* process_audio: take the ASR guard and send the transcription request.
process_audio_asr_call(t) ==
    /\ pc[t] = "process_audio_asr_lock"
    /\ can_lock(asr_guard)
    /\ asr_guard' = lock(asr_guard, t)
    /\ Emit(t, <<Call("ASR", asr_config.server_url,
                      base64_encode(locals[t].audio_data))>>)
    /\ Goto(t, "process_audio_asr_wait")
    /\ UNCHANGED << is_listening, configs, conversation_history, llm_guard,
                    tts_guard, cmd, locals, outbound, invoked, ghosts >>

\* Mutant: a failed transcription request is sent once more.
process_audio_asr_return_retries(t) ==
    /\ pc[t] = "process_audio_asr_wait"
    /\ \E resp \in AsrResponses :
        /\ Reachable(asr_config.server_url, resp)
        /\ LET r == transcribe_wav(resp)
               transcribed_text == r.value.text
           IN
            /\ asr_guard' = drop(asr_guard)
            /\ IF propagates(r) /\ Len(trace[t]) < 4
               THEN /\ Goto(t, "process_audio_asr_lock")
                    /\ UNCHANGED << locals, trace, failed >>
               ELSE IF propagates(r)
               THEN /\ Return(t, Err(r.err))
                    /\ failed' = StageFailed(t, r, "ASR")
                    /\ UNCHANGED << locals, trace >>
               ELSE /\ failed' = StageFailed(t, r, "ASR")
                    /\ locals' = [locals EXCEPT ![t].transcribed_text = transcribed_text]
                    /\ Emit(t, process_audio_asr_notifications(transcribed_text))
                    /\ IF is_blank(transcribed_text)
                       THEN Return(t, ProcessingResult("empty",
                                        Some(transcribed_text), None, FALSE))
                       ELSE Goto(t, "process_audio_llm_lock")
    /\ UNCHANGED << is_listening, configs, conversation_history, llm_guard,
                    tts_guard, cmd, outbound, invoked, chat_entry, ok_starts, cleared,
                    stop_seen >>

\* process_audio: the ASR answer arrives; release the guard, publish the
\* transcription, short-circuit on a blank one, else announce the LLM stage.
process_audio_asr_return(t) ==
    /\ pc[t] = "process_audio_asr_wait"
    /\ \E resp \in AsrResponses :
        /\ Reachable(asr_config.server_url, resp)
        /\ LET r == transcribe_wav(resp)
               transcribed_text == r.value.text
           IN
            /\ asr_guard' = drop(asr_guard)
            /\ failed' = StageFailed(t, r, "ASR")
            /\ IF propagates(r)
               THEN /\ Return(t, Err(r.err))
                    /\ UNCHANGED << locals, trace >>
               ELSE /\ locals' = [locals EXCEPT ![t].transcribed_text = transcribed_text]
                    /\ Emit(t, process_audio_asr_notifications(transcribed_text))
                    /\ IF is_blank(transcribed_text)
                       THEN Return(t, ProcessingResult("empty",
                                        Some(transcribed_text), None, FALSE))
                       ELSE Goto(t, "process_audio_llm_lock")
    /\ UNCHANGED << is_listening, configs, conversation_history, llm_guard,
                    tts_guard, cmd, outbound, invoked, chat_entry, ok_starts, cleared,
                    stop_seen >>

\* process_audio: take the LLM guard; chat pushes the user message and sends.
process_audio_llm_call(t) ==
    /\ pc[t] = "process_audio_llm_lock"
    /\ can_lock(llm_guard)
    /\ llm_guard' = lock(llm_guard, t)
    /\ LET req == chat_request(conversation_history, llm_config,
                               locals[t].transcribed_text) IN
        /\ conversation_history' = req.history
        /\ outbound' = [outbound EXCEPT ![t] = req.messages]
    /\ chat_entry' = ChatEntered(t)
    /\ Emit(t, <<Call("LLM", llm_config.server_url, locals[t].transcribed_text)>>)
    /\ cleared' = ChatAfterClear
    /\ Goto(t, "process_audio_llm_wait")
    /\ UNCHANGED << is_listening, configs, asr_guard, tts_guard, cmd, locals,
                    invoked, failed, ok_starts, stop_seen >>

\* process_audio: the LLM answer arrives; chat pushes the assistant message;
\* release the guard, publish the response, announce the TTS stage.
process_audio_llm_return(t) ==
    /\ pc[t] = "process_audio_llm_wait"
    /\ \E resp \in LlmResponses :
        /\ Reachable(llm_config.server_url, resp)
        /\ LET r == chat_response(conversation_history, resp)
               response_text == r.value.text
           IN
            /\ conversation_history' = r.history
            /\ llm_guard' = drop(llm_guard)
            /\ failed' = StageFailed(t, r, "LLM")
            /\ IF propagates(r)
               THEN /\ Return(t, Err(r.err))
                    /\ UNCHANGED << locals, trace >>
               ELSE /\ locals' = [locals EXCEPT ![t].response_text = response_text]
                    /\ Emit(t, process_audio_llm_notifications(response_text))
                    /\ Goto(t, "process_audio_tts_lock")
    /\ UNCHANGED << is_listening, configs, asr_guard, tts_guard, cmd, outbound,
                    invoked, chat_entry, ok_starts, stop_seen,
                    cleared >>

\* process_audio: take the TTS guard and send the synthesis request.
process_audio_tts_call(t) ==
    /\ pc[t] = "process_audio_tts_lock"
    /\ can_lock(tts_guard)
    /\ tts_guard' = lock(tts_guard, t)
    /\ Emit(t, <<Call("TTS", tts_config.server_url, locals[t].response_text)>>)
    /\ Goto(t, "process_audio_tts_wait")
    /\ UNCHANGED << is_listening, configs, conversation_history, asr_guard,
                    llm_guard, cmd, locals, outbound, invoked, ghosts >>

\* Mutant: a failed TTS stage rolls the turn's two messages back.
process_audio_tts_return_rollback(t) ==
    /\ pc[t] = "process_audio_tts_wait"
    /\ \E resp \in TtsResponses :
        /\ Reachable(tts_config.server_url, resp)
        /\ LET r == synthesize(tts_config, resp) IN
            /\ tts_guard' = drop(tts_guard)
            /\ failed' = StageFailed(t, r, "TTS")
            /\ IF propagates(r)
               THEN /\ Return(t, Err(r.err))
                    /\ conversation_history' =
                         SubSeq(conversation_history, 1,
                                Len(conversation_history) - 2)
                    /\ UNCHANGED << locals, trace >>
               ELSE /\ locals' = [locals EXCEPT ![t].tts_audio = r.value.audio_data]
                    /\ Emit(t, <<EmitText("tts-audio",
                                          base64_encode(r.value.audio_data))>>)
                    /\ Return(t, ProcessingResult("complete",
                                    Some(locals[t].transcribed_text),
                                    Some(locals[t].response_text), TRUE))
                    /\ UNCHANGED conversation_history
    /\ UNCHANGED << is_listening, configs, asr_guard, llm_guard, cmd, outbound,
                    invoked, chat_entry, ok_starts, stop_seen,
                    cleared >>

\* process_audio: the TTS answer arrives; release the guard, publish the
\* audio, return the completed turn.
process_audio_tts_return(t) ==
    /\ pc[t] = "process_audio_tts_wait"
    /\ \E resp \in TtsResponses :
        /\ Reachable(tts_config.server_url, resp)
        /\ LET r == synthesize(tts_config, resp) IN
            /\ tts_guard' = drop(tts_guard)
            /\ failed' = StageFailed(t, r, "TTS")
            /\ IF propagates(r)
               THEN /\ Return(t, Err(r.err))
                    /\ UNCHANGED << locals, trace >>
               ELSE /\ locals' = [locals EXCEPT ![t].tts_audio = r.value.audio_data]
                    /\ Emit(t, <<EmitText("tts-audio",
                                          base64_encode(r.value.audio_data))>>)
                    /\ Return(t, ProcessingResult("complete",
                                    Some(locals[t].transcribed_text),
                                    Some(locals[t].response_text), TRUE))
    /\ UNCHANGED << is_listening, configs, conversation_history, asr_guard,
                    llm_guard, cmd, outbound, invoked, chat_entry, ok_starts, cleared,
                    stop_seen >>

\* --------------------------------------------------- send_text_message
\* What send_text_message emits between the LLM call and the TTS guard.
send_text_message_llm_notifications(response_text) ==
    <<EmitText("llm-response", response_text), EmitStatus("Generating audio...")>>

\* Mutant: the text turn does not announce the LLM stage.
send_text_message_start_silent(t) ==
    /\ pc[t] = "send_text_message"
    /\ Goto(t, "send_text_message_llm_lock")
    /\ UNCHANGED << is_listening, configs, conversation_history, guards, cmd,
                    locals, outbound, trace, invoked, ghosts >>

\* send_text_message: announce the LLM stage.
send_text_message_start(t) ==
    /\ pc[t] = "send_text_message"
    /\ Emit(t, <<EmitStatus("Thinking...")>>)
    /\ Goto(t, "send_text_message_llm_lock")
    /\ UNCHANGED << is_listening, configs, conversation_history, guards, cmd,
                    locals, outbound, invoked, ghosts >>

\* send_text_message: take the LLM guard; chat pushes the message and sends.
send_text_message_llm_call(t) ==
    /\ pc[t] = "send_text_message_llm_lock"
    /\ can_lock(llm_guard)
    /\ llm_guard' = lock(llm_guard, t)
    /\ LET req == chat_request(conversation_history, llm_config, cmd[t].text) IN
        /\ conversation_history' = req.history
        /\ outbound' = [outbound EXCEPT ![t] = req.messages]
    /\ chat_entry' = ChatEntered(t)
    /\ Emit(t, <<Call("LLM", llm_config.server_url, cmd[t].text)>>)
    /\ cleared' = ChatAfterClear
    /\ Goto(t, "send_text_message_llm_wait")
    /\ UNCHANGED << is_listening, configs, asr_guard, tts_guard, cmd, locals,
                    invoked, failed, ok_starts, stop_seen >>

\* Mutant: the guard is released on the success path only.
send_text_message_llm_return_keeps_guard(t) ==
    /\ pc[t] = "send_text_message_llm_wait"
    /\ \E resp \in LlmResponses :
        /\ Reachable(llm_config.server_url, resp)
        /\ LET r == chat_response(conversation_history, resp)
               response_text == r.value.text
           IN
            /\ conversation_history' = r.history
            /\ llm_guard' = IF propagates(r) THEN llm_guard ELSE drop(llm_guard)
            /\ failed' = StageFailed(t, r, "LLM")
            /\ IF propagates(r)
               THEN /\ Return(t, Err(r.err))
                    /\ UNCHANGED << locals, trace >>
               ELSE /\ locals' = [locals EXCEPT ![t].response_text = response_text]
                    /\ Emit(t, send_text_message_llm_notifications(response_text))
                    /\ Goto(t, "send_text_message_tts_lock")
    /\ UNCHANGED << is_listening, configs, asr_guard, tts_guard, cmd, outbound,
                    invoked, chat_entry, ok_starts, stop_seen,
                    cleared >>

\* send_text_message: the LLM answer arrives.
send_text_message_llm_return(t) ==
    /\ pc[t] = "send_text_message_llm_wait"
    /\ \E resp \in LlmResponses :
        /\ Reachable(llm_config.server_url, resp)
        /\ LET r == chat_response(conversation_history, resp)
               response_text == r.value.text
           IN
            /\ conversation_history' = r.history
            /\ llm_guard' = drop(llm_guard)
            /\ failed' = StageFailed(t, r, "LLM")
            /\ IF propagates(r)
               THEN /\ Return(t, Err(r.err))
                    /\ UNCHANGED << locals, trace >>
               ELSE /\ locals' = [locals EXCEPT ![t].response_text = response_text]
                    /\ Emit(t, send_text_message_llm_notifications(response_text))
                    /\ Goto(t, "send_text_message_tts_lock")
    /\ UNCHANGED << is_listening, configs, asr_guard, tts_guard, cmd, outbound,
                    invoked, chat_entry, ok_starts, stop_seen,
                    cleared >>

\* send_text_message: take the TTS guard and send the synthesis request.
send_text_message_tts_call(t) ==
    /\ pc[t] = "send_text_message_tts_lock"
    /\ can_lock(tts_guard)
    /\ tts_guard' = lock(tts_guard, t)
    /\ Emit(t, <<Call("TTS", tts_config.server_url, locals[t].response_text)>>)
    /\ Goto(t, "send_text_message_tts_wait")
    /\ UNCHANGED << is_listening, configs, conversation_history, asr_guard,
                    llm_guard, cmd, locals, outbound, invoked, ghosts >>

\* Mutant: the guard is released on the success path only.
send_text_message_tts_return_keeps_guard(t) ==
    /\ pc[t] = "send_text_message_tts_wait"
    /\ \E resp \in TtsResponses :
        /\ Reachable(tts_config.server_url, resp)
        /\ LET r == synthesize(tts_config, resp) IN
            /\ tts_guard' = IF propagates(r) THEN tts_guard ELSE drop(tts_guard)
            /\ failed' = StageFailed(t, r, "TTS")
            /\ IF propagates(r)
               THEN /\ Return(t, Err(r.err))
                    /\ UNCHANGED << locals, trace >>
               ELSE /\ locals' = [locals EXCEPT ![t].tts_audio = r.value.audio_data]
                    /\ Emit(t, <<EmitText("tts-audio",
                                          base64_encode(r.value.audio_data))>>)
                    /\ Return(t, ProcessingResult("complete",
                                    Some(cmd[t].text),
                                    Some(locals[t].response_text), TRUE))
    /\ UNCHANGED << is_listening, configs, conversation_history, asr_guard,
                    llm_guard, cmd, outbound, invoked, chat_entry, ok_starts, cleared,
                    stop_seen >>

\* send_text_message: the TTS answer arrives; the transcription of the result
\* is the message itself.
send_text_message_tts_return(t) ==
    /\ pc[t] = "send_text_message_tts_wait"
    /\ \E resp \in TtsResponses :
        /\ Reachable(tts_config.server_url, resp)
        /\ LET r == synthesize(tts_config, resp) IN
            /\ tts_guard' = drop(tts_guard)
            /\ failed' = StageFailed(t, r, "TTS")
            /\ IF propagates(r)
               THEN /\ Return(t, Err(r.err))
                    /\ UNCHANGED << locals, trace >>
               ELSE /\ locals' = [locals EXCEPT ![t].tts_audio = r.value.audio_data]
                    /\ Emit(t, <<EmitText("tts-audio",
                                          base64_encode(r.value.audio_data))>>)
                    /\ Return(t, ProcessingResult("complete",
                                    Some(cmd[t].text),
                                    Some(locals[t].response_text), TRUE))
    /\ UNCHANGED << is_listening, configs, conversation_history, asr_guard,
                    llm_guard, cmd, outbound, invoked, chat_entry, ok_starts, cleared,
                    stop_seen >>

\* -------------------------------------------------- configure_services
set_server_url(config, url) == [config EXCEPT !.server_url = url]

\* configure_services: lock the ASR client, set its URL, drop the guard.
configure_services_asr(t) ==
    /\ pc[t] = "configure_services"
    /\ can_lock(asr_guard)
    /\ asr_config' = set_server_url(asr_config, cmd[t].config.asr_url)
    /\ Goto(t, "configure_services_llm")
    /\ UNCHANGED << is_listening, llm_config, tts_config, conversation_history,
                    guards, cmd, locals, outbound, trace, invoked, ghosts >>

\* Mutant: pointing the LLM client at another server starts a new conversation.
configure_services_llm_resets(t) ==
    /\ pc[t] = "configure_services_llm"
    /\ can_lock(llm_guard)
    /\ llm_config' = set_server_url(llm_config, cmd[t].config.llm_url)
    /\ conversation_history' = <<>>
    /\ Goto(t, "configure_services_tts")
    /\ UNCHANGED << is_listening, asr_config, tts_config, guards, cmd, locals,
                    outbound, trace, invoked, ghosts >>

\* configure_services: lock the LLM client, set its URL, drop the guard.
configure_services_llm(t) ==
    /\ pc[t] = "configure_services_llm"
    /\ can_lock(llm_guard)
    /\ llm_config' = set_server_url(llm_config, cmd[t].config.llm_url)
    /\ Goto(t, "configure_services_tts")
    /\ UNCHANGED << is_listening, asr_config, tts_config, conversation_history,
                    guards, cmd, locals, outbound, trace, invoked, ghosts >>

\* Mutant: the URL is written without taking the guard.
configure_services_tts_unguarded(t) ==
    /\ pc[t] = "configure_services_tts"
    /\ tts_config' = set_server_url(tts_config, cmd[t].config.tts_url)
    /\ Return(t, OkUnit)
    /\ UNCHANGED << is_listening, asr_config, llm_config, conversation_history,
                    guards, cmd, locals, outbound, trace, invoked, ghosts >>

\* configure_services: lock the TTS client, set its URL, drop the guard, return.
configure_services_tts(t) ==
    /\ pc[t] = "configure_services_tts"
    /\ can_lock(tts_guard)
    /\ tts_config' = set_server_url(tts_config, cmd[t].config.tts_url)
    /\ Return(t, OkUnit)
    /\ UNCHANGED << is_listening, asr_config, llm_config, conversation_history,
                    guards, cmd, locals, outbound, trace, invoked, ghosts >>

\* Mutant: the history is cleared without taking the guard.
clear_conversation_unguarded(t) ==
    /\ pc[t] = "clear_conversation"
    /\ conversation_history' = clear_history(conversation_history)
    /\ chat_entry' = AllChatEntriesCleared
    /\ cleared' = HistoryCleared
    /\ Return(t, OkUnit)
    /\ UNCHANGED << is_listening, configs, guards, cmd, locals, outbound,
                    trace, invoked, failed, ok_starts, stop_seen >>

\* -------------------------------------------------- clear_conversation
\* clear_conversation: lock the LLM client, clear its history; the guard is
\* dropped when the command returns.
clear_conversation(t) ==
    /\ pc[t] = "clear_conversation"
    /\ can_lock(llm_guard)
    /\ conversation_history' = clear_history(conversation_history)
    /\ chat_entry' = AllChatEntriesCleared
    /\ cleared' = HistoryCleared
    /\ Return(t, OkUnit)
    /\ UNCHANGED << is_listening, configs, guards, cmd, locals, outbound,
                    trace, invoked, failed, ok_starts, stop_seen >>

\* ---------------------------------------------------------- chat_stream
\* The lines of a response body: a text delta, the end marker, a comment, a
\* payload that is no JSON, a JSON payload without text.
DeltaLine(content) == DataPrefix \o DeltaOpen \o content \o DeltaClose
DoneLine == DataPrefix \o DoneMarker
CommentLine == << ":", "k" >>
BadJsonLine == DataPrefix \o << "{" >>
NoContentLine ==
    DataPrefix
    \o << "{", "\"", "c", "h", "o", "i", "c", "e", "s", "\"", ":", "[", "{",
          "\"", "d", "e", "l", "t", "a", "\"", ":", "{", "}", "}", "]", "}" >>

\* Server-sent events: each line ends its event with an empty line.
RECURSIVE Frames(_)
Frames(ls) ==
    IF ls = <<>> THEN <<>> ELSE Head(ls) \o << "\n", "\n" >> \o Frames(Tail(ls))

\* An item of the byte stream: a chunk of text, or an error of the transport.
Chunk(ls) == [ok |-> TRUE, text |-> Frames(ls)]
StreamError == [ok |-> FALSE, text |-> <<>>]

\* bytes_stream yields the body in the pieces the transport delivers, which
\* need not end where a line ends: a body of two text events, whole and cut
\* in two after each of its bytes.
Piece(text) == [ok |-> TRUE, text |-> text]
TwoEvents == Frames(<< DeltaLine(<<"o">>), DeltaLine(<<"k">>) >>)
Split(text, k) ==
    << Piece(SubSeq(text, 1, k)), Piece(SubSeq(text, k + 1, Len(text))) >>
SplitStreams ==
    { << Piece(TwoEvents) >> }
    \cup { Split(TwoEvents, k) : k \in 1..(Len(TwoEvents) - 1) }

BaseStreams ==
    { <<>>,
      << Chunk(<< DeltaLine(<<"o">>) >>), Chunk(<< DeltaLine(<<"k">>) >>),
         Chunk(<< DoneLine >>) >>,
      << Chunk(<< DeltaLine(<<"o">>), DoneLine, DeltaLine(<<"x">>) >>),
         Chunk(<< DeltaLine(<<"k">>) >>) >>,
      << Chunk(<< DeltaLine(<<"o">>), DeltaLine(<<"k">>), DoneLine >>) >>,
      << Chunk(<< DeltaLine(<<"o">>) >>), StreamError >>,
      << Chunk(<< CommentLine, BadJsonLine, NoContentLine, DeltaLine(<<>>) >>) >>,
      << Chunk(<< DoneLine, DeltaLine(<<"x">>) >>), Chunk(<< DoneLine >>),
         Chunk(<< CommentLine, DeltaLine(<<"k">>) >>) >> }

Streams == BaseStreams \cup SplitStreams

StreamResponses ==
    { TransportError,
      HttpResponse(500, "text/plain", RawGarbage, None),
      HttpResponse(200, "text/event-stream", <<>>, None) }

StreamErr(msg) == [tag |-> "Err", err |-> msg, value |-> NoLLMResponse]
StreamOk(text) ==
    [tag |-> "Ok", err |-> "",
     value |-> [text |-> text, finish_reason |-> Some(<<"s", "t", "o", "p">>)]]

\* chat_stream is called: the user message is pushed, the request is built.
chat_stream_call ==
    /\ stream_pc \in {"idle", "done"}
    /\ invoked < MaxCmds
    /\ invoked' = invoked + 1
    /\ \E user_message \in Messages :
        LET req == chat_request(conversation_history, llm_config, user_message) IN
        /\ stream_user' = user_message
        /\ conversation_history' = req.history
        /\ stream_messages' = req.messages
    /\ stream_entry' = conversation_history
    /\ stream_pc' = "sent"
    /\ stream_rest' = <<>>
    /\ full_response' = <<>>
    /\ on_chunk' = <<>>
    /\ stream_result' = NoStreamResult
    /\ stream_seen' = <<>>
    /\ UNCHANGED << app_vars, llm_config, probe, wav >>

\* The response head arrives, or the request fails.
chat_stream_response ==
    /\ stream_pc = "sent"
    /\ \E resp \in StreamResponses, body \in Streams :
        /\ Reachable(llm_config.server_url, resp)
        /\ IF ~resp.sent THEN
                /\ stream_result' = StreamErr("Failed to send streaming LLM request")
                /\ stream_pc' = "done"
                /\ UNCHANGED stream_rest
           ELSE IF ~is_success(resp.status) THEN
                /\ stream_result' = StreamErr("Streaming LLM request failed with status")
                /\ stream_pc' = "done"
                /\ UNCHANGED stream_rest
           ELSE /\ stream_rest' = body
                /\ stream_pc' = "streaming"
                /\ UNCHANGED stream_result
    /\ UNCHANGED << app_vars, llm_config, conversation_history, invoked, probe, wav,
                    stream_user, stream_messages, full_response, on_chunk,
                    stream_entry, stream_seen >>

\* stream.next() yields a chunk: its lines are processed, or the error ends
\* the call.
chat_stream_next ==
    /\ stream_pc = "streaming"
    /\ stream_rest # <<>>
    /\ LET chunk == Head(stream_rest) IN
        /\ stream_rest' = Tail(stream_rest)
        /\ stream_seen' = Append(stream_seen, chunk)
        /\ IF ~chunk.ok THEN
                /\ stream_result' = StreamErr("Stream error")
                /\ stream_pc' = "done"
                /\ UNCHANGED << full_response, on_chunk >>
           ELSE LET contents == chat_stream_chunk(lines(chunk.text)) IN
                /\ full_response' = push_all(full_response, contents)
                /\ on_chunk' = on_chunk \o contents
                /\ UNCHANGED << stream_pc, stream_result >>
    /\ UNCHANGED << app_vars, llm_config, conversation_history, invoked, probe, wav,
                    stream_user, stream_messages, stream_entry >>

\* Mutant: nothing is stored when the stream carried no text.
chat_stream_end_skips_empty ==
    /\ stream_pc = "streaming"
    /\ stream_rest = <<>>
    /\ conversation_history' =
         IF full_response = <<>> THEN conversation_history
         ELSE Append(conversation_history, AssistantMessage(full_response))
    /\ stream_result' = StreamOk(full_response)
    /\ stream_pc' = "done"
    /\ UNCHANGED << app_vars, llm_config, invoked, probe, wav, stream_user,
                    stream_messages, stream_rest, full_response, on_chunk,
                    stream_entry, stream_seen >>

\* stream.next() yields None: the accumulated text is pushed as the assistant
\* message and returned.
chat_stream_end ==
    /\ stream_pc = "streaming"
    /\ stream_rest = <<>>
    /\ conversation_history' =
         Append(conversation_history, AssistantMessage(full_response))
    /\ stream_result' = StreamOk(full_response)
    /\ stream_pc' = "done"
    /\ UNCHANGED << app_vars, llm_config, invoked, probe, wav, stream_user,
                    stream_messages, stream_rest, full_response, on_chunk,
                    stream_entry, stream_seen >>

NextStream ==
    \/ chat_stream_call
    \/ chat_stream_response
    \/ chat_stream_next
    \/ chat_stream_end

SpecStream == Init /\ [][NextStream]_vars

\* ------------------------------------- the clients on one server answer
\* Every answer one of a range of servers may give to a request: a status, a
\* content-type header (none, other media types, JSON with and without a
\* parameter, another spelling), and a body: no JSON, empty, or a JSON object
\* with the members the three clients look for, present, missing or of
\* another type.  raw stands for the bytes of the body.
ProbeStatuses == {200, 204, 404, 500}

ProbeContentTypes ==
    { "", "audio/wav", "application/json", "application/json; charset=utf-8",
      "Application/JSON" }

Doc(text, language, duration, content, finish_reason, audio) ==
    Some([text |-> text, language |-> language, duration |-> duration,
          content |-> content, finish_reason |-> finish_reason,
          audio |-> audio])

ProbeDocs ==
    { Doc(JNull, JNull, JNull, JNull, JNull, JNull),
      Doc(JStr(<<"h", "i">>), JStr(<<"e", "n">>), JNum(2),
          JStr(<<"o", "k">>), JStr(<<"s", "t", "o", "p">>),
          JStr(base64_encode(Audio2))),
      Doc(JNum(1), JNum(1), JStr(<<"2">>), JNum(1), JNum(1), JNum(1)),
      Doc(JStr(<<" ">>), JNull, JNull, JStr(<<>>), JNull, JStr(<<>>)),
      Doc(JStr(<<"h", "i">>), JNull, JNum(2), JStr(<<"o", "k">>), JNull,
          JStr(<<"U", "h", "=", "=">>)),
      Doc(JNull, JStr(<<"e", "n">>), JNull, JNull,
          JStr(<<"s", "t", "o", "p">>), JStr(<<"A", "Q", "I">>)) }

ProbeResponses ==
    { TransportError }
    \cup { BrokenResponse(st, ct) :
            st \in ProbeStatuses, ct \in ProbeContentTypes }
    \cup { HttpResponse(st, ct, raw, None) :
            st \in ProbeStatuses, ct \in ProbeContentTypes,
            raw \in { <<>>, RawGarbage, Audio2 } }
    \cup { HttpResponse(st, ct, RawJson, doc) :
            st \in ProbeStatuses, ct \in ProbeContentTypes, doc \in ProbeDocs }

\* The history a probed chat call works on: its own user message, pushed.
ProbeHistory == << UserMessage(<<"h", "i">>) >>

InitClients ==
    /\ AppStateNew
    /\ StreamIdle
    /\ probe \in { [NoProbe EXCEPT !.resp = r] : r \in ProbeResponses }
    /\ wav = NoWav

Probed(stage, out) ==
    /\ probe.stage = ""
    /\ probe' = [probe EXCEPT !.stage = stage, !.out = out]
    /\ UNCHANGED << app_vars, stream_vars, llm_config, conversation_history,
                    invoked, wav >>

probe_transcribe_wav == Probed("ASR", transcribe_wav(probe.resp))
probe_chat == Probed("LLM", chat_response(ProbeHistory, probe.resp))
probe_synthesize == Probed("TTS", synthesize(tts_config, probe.resp))

NextClients ==
    \/ probe_transcribe_wav
    \/ probe_chat
    \/ probe_synthesize

SpecClients == InitClients /\ [][NextClients]_vars

\* ------------------------------------------ samples_to_wav on one input
\* Sample buffers with the extreme sample values, and sample rates from the
\* usual ones up to the largest u32.
SampleBuffers ==
    { <<>>, <<0>>, <<-1>>, <<1, -32768>>, <<32767, 256, -2>> }

SampleRates ==
    { U32(8000), U32(16000), U32(22050), U32(44100), U32(48000),
      << 255, 255, 255, 127 >>, << 0, 0, 0, 128 >>, << 255, 255, 255, 255 >> }

InitWav ==
    /\ AppStateNew
    /\ StreamIdle
    /\ probe = NoProbe
    /\ wav \in { [NoWav EXCEPT !.samples = s, !.sample_rate = r,
                               !.overflow_checks = c] :
                  s \in SampleBuffers, r \in SampleRates, c \in BOOLEAN }

wav_samples_to_wav ==
    /\ ~wav.called
    /\ wav' = [wav EXCEPT
                 !.called = TRUE,
                 !.out = samples_to_wav(wav.samples, wav.sample_rate,
                                        wav.overflow_checks)]
    /\ UNCHANGED << app_vars, stream_vars, llm_config, conversation_history,
                    invoked, probe >>

NextWav == wav_samples_to_wav

SpecWav == InitWav /\ [][NextWav]_vars

\* --------------------------------------------------------- specification
Next ==
    /\ \E t \in Tasks :
        \/ Invoke(t)
        \/ start_listening_load(t)
        \/ start_listening_store(t)
        \/ stop_listening(t)
        \/ is_listening_command(t)
        \/ process_audio_decode(t)
        \/ process_audio_asr_call(t)
        \/ process_audio_asr_return(t)
        \/ process_audio_llm_call(t)
        \/ process_audio_llm_return(t)
        \/ process_audio_tts_call(t)
        \/ process_audio_tts_return(t)
        \/ send_text_message_start(t)
        \/ send_text_message_llm_call(t)
        \/ send_text_message_llm_return(t)
        \/ send_text_message_tts_call(t)
        \/ send_text_message_tts_return(t)
        \/ configure_services_asr(t)
        \/ configure_services_llm(t)
        \/ configure_services_tts(t)
        \/ clear_conversation(t)
    /\ UNCHANGED << stream_vars, probe, wav >>

Spec == Init /\ [][Next]_vars

\* ------------------------------------------------------------ scheduling
\* The runtime keeps polling a task that can run, a network call returns in
\* the end (with a response or an error), and the guards are tokio mutexes,
\* which hand the lock to the waiters in the order they asked: a task that
\* waits for a guard that is released again and again gets it in the end.
Runs(t) ==
    /\ \/ start_listening_load(t)
       \/ start_listening_store(t)
       \/ stop_listening(t)
       \/ is_listening_command(t)
       \/ process_audio_decode(t)
       \/ process_audio_asr_return(t)
       \/ process_audio_llm_return(t)
       \/ process_audio_tts_return(t)
       \/ send_text_message_start(t)
       \/ send_text_message_llm_return(t)
       \/ send_text_message_tts_return(t)
    /\ UNCHANGED << stream_vars, probe, wav >>

Acquires(t) ==
    /\ \/ process_audio_asr_call(t)
       \/ process_audio_llm_call(t)
       \/ process_audio_tts_call(t)
       \/ send_text_message_llm_call(t)
       \/ send_text_message_tts_call(t)
       \/ configure_services_asr(t)
       \/ configure_services_llm(t)
       \/ configure_services_tts(t)
       \/ clear_conversation(t)
    /\ UNCHANGED << stream_vars, probe, wav >>

Fairness == \A t \in Tasks : WF_vars(Runs(t)) /\ SF_vars(Acquires(t))

SpecFair == Init /\ [][Next]_vars /\ Fairness

\* ------------------------------------------- one command after another
\* A frontend that awaits each command before it invokes the next one: every
\* command runs alone, on the first task.
Client == CHOOSE t \in Tasks : \A u \in Tasks : t <= u

InvokeAwaited(t) ==
    /\ t = Client
    /\ pc[t] \in {"idle", "done"}
    /\ invoked < MaxSeqCmds
    /\ \E c \in Commands :
        /\ cmd' = [cmd EXCEPT ![t] = c]
        /\ pc' = [pc EXCEPT ![t] = c.name]
    /\ invoked' = invoked + 1
    /\ locals' = [locals EXCEPT ![t] = NoLocals]
    /\ outbound' = [outbound EXCEPT ![t] = <<>>]
    /\ result' = [result EXCEPT ![t] = Pending]
    /\ trace' = [trace EXCEPT ![t] = <<>>]
    /\ failed' = [failed EXCEPT ![t] = ""]
    /\ chat_entry' = [chat_entry EXCEPT ![t] = NoChatEntry]
    /\ stop_seen' = [stop_seen EXCEPT ![t] = FALSE]
    /\ UNCHANGED << is_listening, configs, conversation_history, guards,
                    ok_starts, cleared >>

NextAwaited ==
    /\ \E t \in Tasks :
        \/ InvokeAwaited(t)
        \/ start_listening_load(t)
        \/ start_listening_store(t)
        \/ stop_listening(t)
        \/ is_listening_command(t)
        \/ process_audio_decode(t)
        \/ process_audio_asr_call(t)
        \/ process_audio_asr_return(t)
        \/ process_audio_llm_call(t)
        \/ process_audio_llm_return(t)
        \/ process_audio_tts_call(t)
        \/ process_audio_tts_return(t)
        \/ send_text_message_start(t)
        \/ send_text_message_llm_call(t)
        \/ send_text_message_llm_return(t)
        \/ send_text_message_tts_call(t)
        \/ send_text_message_tts_return(t)
        \/ configure_services_asr(t)
        \/ configure_services_llm(t)
        \/ configure_services_tts(t)
        \/ clear_conversation(t)
    /\ UNCHANGED << stream_vars, probe, wav >>

SpecAwaited == Init /\ [][NextAwaited]_vars

\* ---------------------------------------------------------------- claims
TurnCommands == {"process_audio", "send_text_message"}
LlmWait == {"process_audio_llm_wait", "send_text_message_llm_wait"}
TtsLock == {"process_audio_tts_lock", "send_text_message_tts_lock"}
TtsWait == {"process_audio_tts_wait", "send_text_message_tts_wait"}

\* The text a turn hands to chat.
UserText(t) ==
    IF cmd[t].name = "process_audio" THEN locals[t].transcribed_text
    ELSE cmd[t].text

EmittedIn(tr, name) ==
    \E i \in DOMAIN tr : tr[i].kind = "emit" /\ tr[i].name = name
StatusIn(tr, status) ==
    \E i \in DOMAIN tr : tr[i] = EmitStatus(status)
CalledIn(tr, stage) ==
    \E i \in DOMAIN tr : tr[i].kind = "call" /\ tr[i].name = stage
CallsIn(tr, stage) ==
    Cardinality({i \in DOMAIN tr : tr[i].kind = "call" /\ tr[i].name = stage})

OnlyWhitespace(s) == \A i \in DOMAIN s : s[i] \in {" ", "\t", "\n"}

\* C1: a process_audio turn whose transcription is empty or whitespace only
\* has returned status "empty" with the transcription as transcribed, no
\* response and audio_ready false; it emitted 'Transcribing...' and the
\* transcription and nothing else, called only the ASR stage, and never
\* entered chat (it sent no messages and pushed nothing to the history).
C1_BlankTranscriptionShortCircuits ==
    \A t \in Tasks :
        ( /\ cmd[t].name = "process_audio"
          /\ EmittedIn(trace[t], "transcription")
          /\ OnlyWhitespace(locals[t].transcribed_text) )
        => /\ pc[t] = "done"
           /\ result[t] = ProcessingResult("empty",
                              Some(locals[t].transcribed_text), None, FALSE)
           /\ Len(trace[t]) = 3
           /\ trace[t][1] = EmitStatus("Transcribing...")
           /\ trace[t][2].kind = "call" /\ trace[t][2].name = "ASR"
           /\ trace[t][3] = EmitText("transcription", locals[t].transcribed_text)
           /\ outbound[t] = <<>>
           /\ chat_entry[t] = NoChatEntry

C1_Witness ==
    \E t \in Tasks :
        /\ cmd[t].name = "process_audio"
        /\ pc[t] = "done"
        /\ result[t].value.status = "empty"
        /\ locals[t].transcribed_text = <<" ">>
        /\ conversation_history # <<>>

\* C2: when a stage of a turn fails, the command has returned an error and no
\* ProcessingResult, the failed call is the last thing the turn did and the
\* only call to that stage, so no later stage was called and no later
\* notification emitted.
C2_StageFailureAborts ==
    \A t \in Tasks :
        (cmd[t].name \in TurnCommands /\ failed[t] # "")
        => /\ pc[t] = "done"
           /\ result[t].tag = "Err"
           /\ result[t].value = NoValue
           /\ trace[t] # <<>>
           /\ trace[t][Len(trace[t])].kind = "call"
           /\ trace[t][Len(trace[t])].name = failed[t]
           /\ CallsIn(trace[t], failed[t]) = 1
           /\ ~EmittedIn(trace[t], "tts-audio")
           /\ failed[t] \in {"ASR", "LLM"} =>
                /\ ~CalledIn(trace[t], "TTS")
                /\ ~EmittedIn(trace[t], "llm-response")
                /\ ~StatusIn(trace[t], "Generating audio...")
           /\ failed[t] = "ASR" =>
                /\ ~CalledIn(trace[t], "LLM")
                /\ ~EmittedIn(trace[t], "transcription")
                /\ ~StatusIn(trace[t], "Thinking...")

C2_Witness ==
    \E t \in Tasks :
        /\ cmd[t].name = "send_text_message"
        /\ cmd[t].text = <<"h", "i">>
        /\ failed[t] = "LLM"
        /\ result[t] = Err("LLM request failed with status")

\* C3: the step in which a chat call returns successfully leaves the history
\* equal to the history the call found, followed by the user message with the
\* given text and the assistant message with the extracted content, also
\* when that content is empty.
C3_ChatAppendsUserThenAssistant ==
    [][ \A t \in Tasks :
            (pc[t] \in LlmWait /\ pc'[t] \in TtsLock)
            => conversation_history' =
                 chat_entry[t].history
                 \o << UserMessage(UserText(t)),
                       AssistantMessage(locals'[t].response_text) >> ]_vars

C3_Witness ==
    \E t \in Tasks :
        /\ pc[t] \in TtsLock
        /\ locals[t].response_text = <<>>
        /\ chat_entry[t].active
        /\ chat_entry[t].history # <<>>
        /\ Len(conversation_history) = Len(chat_entry[t].history) + 2

\* C4: after the LLM stage of a turn completed and its TTS stage failed, the
\* turn has returned an error and, unless the conversation was cleared since,
\* the user message and the assistant message of the turn are still in the
\* history where chat put them.
C4_NoRollbackOnTtsFailure ==
    \A t \in Tasks :
        (cmd[t].name \in TurnCommands /\ failed[t] = "TTS")
        => /\ result[t].tag = "Err"
           /\ chat_entry[t].active =>
                LET n == Len(chat_entry[t].history) IN
                /\ Len(conversation_history) >= n + 2
                /\ conversation_history[n + 1] = UserMessage(UserText(t))
                /\ conversation_history[n + 2] =
                     AssistantMessage(locals[t].response_text)

C4_Witness ==
    \E t \in Tasks :
        /\ cmd[t].name = "process_audio"
        /\ failed[t] = "TTS"
        /\ chat_entry[t].active
        /\ pc[t] = "done"

\* A turn whose chat call returned successfully.
ChatDone(t) == cmd[t].name \in TurnCommands /\ EmittedIn(trace[t], "llm-response")

\* C5: at most one task is inside a chat call; while a task is inside, the
\* history is what the call found plus its user message; and of two turns
\* whose chats both succeeded (no clear since), the two messages of each are
\* adjacent in the history, the pairs do not overlap, and the message list
\* the later chat sent contains both messages of the earlier one.
C5_ChatsSerialize ==
    /\ \A t, u \in Tasks :
        (pc[t] \in LlmWait /\ pc[u] \in LlmWait) => t = u
    /\ \A t \in Tasks :
        pc[t] \in LlmWait =>
            /\ llm_guard = t
            /\ conversation_history =
                 Append(chat_entry[t].history, UserMessage(UserText(t)))
    /\ \A t, u \in Tasks :
        ( /\ t # u /\ ChatDone(t) /\ ChatDone(u)
          /\ chat_entry[t].active /\ chat_entry[u].active
          /\ Len(chat_entry[t].history) <= Len(chat_entry[u].history) )
        => LET n == Len(chat_entry[t].history)
               m == Len(chat_entry[u].history)
               first == << UserMessage(UserText(t)),
                           AssistantMessage(locals[t].response_text) >>
               second == << UserMessage(UserText(u)),
                            AssistantMessage(locals[u].response_text) >>
           IN  /\ m >= n + 2
               /\ Len(conversation_history) >= m + 2
               /\ SubSeq(conversation_history, n + 1, n + 2) = first
               /\ SubSeq(conversation_history, m + 1, m + 2) = second
               /\ SubSeq(outbound[u], n + 2, n + 3) = first

\* Two turns in flight at once, both past their chat, one right after the other.
C5_Witness ==
    \E t, u \in Tasks :
        /\ t # u
        /\ pc[t] \in TtsLock /\ pc[u] \in TtsLock
        /\ chat_entry[t].history = <<>>
        /\ Len(chat_entry[u].history) = 2
        /\ chat_entry[t].active /\ chat_entry[u].active
        /\ Len(conversation_history) = 4


\* C6: a task holds a guard only while its stage's call is in flight, the one
\* of that stage: never two at once, and none while it waits for the next
\* stage's guard or after its command returned.
C6_GuardsPerStage ==
    \A t \in Tasks :
        /\ asr_guard = t <=> pc[t] = "process_audio_asr_wait"
        /\ llm_guard = t <=> pc[t] \in LlmWait
        /\ tts_guard = t <=> pc[t] \in TtsWait

\* A turn is between its LLM and TTS stages and a clear_conversation that
\* another task ran in between has completed.
C6_Witness ==
    \E t, u \in Tasks :
        /\ t # u
        /\ pc[t] = "process_audio_tts_lock"
        /\ cmd[u].name = "clear_conversation"
        /\ pc[u] = "done"
        /\ ~chat_entry[t].active
        /\ conversation_history = <<>>

\* C7: a start_listening that reads the flag as true returns 'Already
\* listening' in that step and changes neither the flag nor what it emitted;
\* one that read it as false sets the flag, emits listening-started once and
\* returns ok.
C7_StartListening ==
    [][ \A t \in Tasks :
          /\ (pc[t] = "start_listening" /\ pc'[t] # pc[t]) =>
                IF is_listening
                THEN /\ pc'[t] = "done"
                     /\ result'[t] = Err("Already listening")
                     /\ is_listening'
                     /\ trace'[t] = <<>>
                ELSE /\ pc'[t] = "start_listening_store"
                     /\ trace'[t] = <<>>
          /\ (pc[t] = "start_listening_store" /\ pc'[t] # pc[t]) =>
                /\ pc'[t] = "done"
                /\ result'[t] = OkUnit
                /\ is_listening'
                /\ trace'[t] = <<EmitUnit("listening-started")>> ]_vars

C7_Witness ==
    \E t, u \in Tasks :
        /\ t # u
        /\ cmd[t].name = "start_listening" /\ cmd[u].name = "start_listening"
        /\ result[t] = Err("Already listening")
        /\ result[u] = OkUnit
        /\ trace[t] = <<>>
        /\ is_listening

\* C8: of the start_listening commands that run while the flag is false, with
\* no stop_listening in between, exactly one returns ok.
C8_OneConcurrentStartSucceeds == ok_starts <= 1

\* The events of a trace without the URLs of its calls.
Shape(tr) ==
    [i \in DOMAIN tr |->
        IF tr[i].kind = "call" THEN [tr[i] EXCEPT !.lit = ""] ELSE tr[i]]

\* C9: a voice turn that returned status "complete" emitted and called, in
\* this order: 'Transcribing...', the ASR call, transcription(text),
\* 'Thinking...', the LLM call with that text, llm-response(response),
\* 'Generating audio...', the TTS call with that response, and tts-audio with
\* the standard base64 text of the audio bytes.
C9_VoiceTurnOrder ==
    \A t \in Tasks :
        ( /\ cmd[t].name = "process_audio"
          /\ pc[t] = "done"
          /\ result[t].value.status = "complete" )
        => /\ Len(trace[t]) = 9
           /\ SubSeq(Shape(trace[t]), 1, 8) =
                << EmitStatus("Transcribing..."),
                   Call("ASR", "", trace[t][2].text),
                   EmitText("transcription", locals[t].transcribed_text),
                   EmitStatus("Thinking..."),
                   Call("LLM", "", locals[t].transcribed_text),
                   EmitText("llm-response", locals[t].response_text),
                   EmitStatus("Generating audio..."),
                   Call("TTS", "", locals[t].response_text) >>
           /\ trace[t][9].kind = "emit"
           /\ trace[t][9].name = "tts-audio"
           /\ base64_decode(trace[t][9].text) =
                [ok |-> TRUE, bytes |-> locals[t].tts_audio]
           /\ base64_decode(trace[t][2].text) =
                base64_decode(cmd[t].text)
           /\ result[t] = ProcessingResult("complete",
                              Some(locals[t].transcribed_text),
                              Some(locals[t].response_text), TRUE)

C9_Witness ==
    \E t \in Tasks :
        /\ cmd[t].name = "process_audio"
        /\ pc[t] = "done"
        /\ result[t].value.status = "complete"
        /\ locals[t].tts_audio = Audio2

\* What a turn did, without payloads that depend on the servers' answers:
\* kind and name of each event, the literal of a status notification.
Stages(tr) ==
    [i \in DOMAIN tr |->
        [kind |-> tr[i].kind, name |-> tr[i].name,
         lit |-> IF tr[i].kind = "emit" THEN tr[i].lit ELSE ""]]

\* What a voice turn did after it published its transcription.
AfterTranscription(tr) ==
    LET k == CHOOSE i \in DOMAIN tr :
                tr[i].kind = "emit" /\ tr[i].name = "transcription"
    IN  SubSeq(tr, k + 1, Len(tr))

\* A finished text turn t and a finished voice turn u whose transcription is
\* t's message, with the same stage (or none) failing in both.
SameTextTurns(t, u) ==
    /\ cmd[t].name = "send_text_message" /\ pc[t] = "done"
    /\ cmd[u].name = "process_audio" /\ pc[u] = "done"
    /\ EmittedIn(trace[u], "transcription")
    /\ locals[u].transcribed_text = cmd[t].text
    /\ failed[t] = failed[u]

SameTurn(t, u) ==
    /\ Stages(trace[t]) = Stages(AfterTranscription(trace[u]))
    /\ result[t].tag = result[u].tag
    /\ result[t].value.status = result[u].value.status
    /\ result[t].value.audio_ready = result[u].value.audio_ready

\* C10 as stated: for every text, a text turn does what a voice turn with
\* that transcription does after its ASR stage.
C10_TextTurnEqualsVoiceTurn ==
    \A t, u \in Tasks : SameTextTurns(t, u) => SameTurn(t, u)

\* C10 amended: the same for every text that has a character other than
\* whitespace.
C10_TextTurnEqualsVoiceTurnUnlessBlank ==
    \A t, u \in Tasks :
        (SameTextTurns(t, u) /\ ~OnlyWhitespace(cmd[t].text)) => SameTurn(t, u)

C10_Witness ==
    \E t, u \in Tasks :
        /\ SameTextTurns(t, u)
        /\ cmd[t].text = <<"h", "i">>
        /\ result[t].value.status = "complete"
        /\ result[u].value.status = "complete"

\* C11: the chat call that follows a clear_conversation, with no other chat
\* call in between, sends exactly the system prompt and its own user message,
\* whatever the clear removed.
C11_ChatAfterClearSendsNoResidue ==
    \A t \in Tasks :
        (cleared.phase = "chatted" /\ pc[t] \in LlmWait)
        => outbound[t] = << SystemMessage(llm_config.system_prompt),
                            UserMessage(UserText(t)) >>

\* The clear removed the two messages of an earlier exchange.
C11_Witness ==
    \E t \in Tasks :
        /\ cleared.phase = "chatted"
        /\ cleared.wiped = 2
        /\ pc[t] \in LlmWait
        /\ Len(outbound[t]) = 2

\* C12: configure_services takes its three steps in the order ASR, LLM, TTS,
\* each when that client's guard is free; a step replaces the base URL of its
\* client by the one given and changes no other configuration field, no other
\* client, no guard, not the history and not the listening flag; the last
\* step returns ok.
C12_ConfigureServicesSetsUrlsOnly ==
    [][ \A t \in Tasks :
          /\ (pc[t] = "configure_services" /\ pc'[t] # pc[t]) =>
                /\ asr_guard = NoOwner
                /\ pc'[t] = "configure_services_llm"
                /\ result'[t] = Pending
                /\ asr_config' =
                     [asr_config EXCEPT !.server_url = cmd[t].config.asr_url]
                /\ UNCHANGED << llm_config, tts_config, conversation_history,
                                is_listening, guards >>
          /\ (pc[t] = "configure_services_llm" /\ pc'[t] # pc[t]) =>
                /\ llm_guard = NoOwner
                /\ pc'[t] = "configure_services_tts"
                /\ result'[t] = Pending
                /\ llm_config' =
                     [llm_config EXCEPT !.server_url = cmd[t].config.llm_url]
                /\ UNCHANGED << asr_config, tts_config, conversation_history,
                                is_listening, guards >>
          /\ (pc[t] = "configure_services_tts" /\ pc'[t] # pc[t]) =>
                /\ tts_guard = NoOwner
                /\ pc'[t] = "done"
                /\ result'[t] = OkUnit
                /\ tts_config' =
                     [tts_config EXCEPT !.server_url = cmd[t].config.tts_url]
                /\ UNCHANGED << asr_config, llm_config, conversation_history,
                                is_listening, guards >> ]_vars

\* A configure_services has returned after a turn put messages in the history.
C12_Witness ==
    \E t \in Tasks :
        /\ cmd[t].name = "configure_services"
        /\ pc[t] = "done"
        /\ result[t] = OkUnit
        /\ llm_config = [QwenConfigDefault EXCEPT !.server_url = "http://b"]
        /\ asr_config.server_url = "http://a"
        /\ tts_config.server_url = "http://c"
        /\ conversation_history # <<>>

\* C13: every message in the conversation history has non-empty content.
C13_NoEmptyContentPersisted ==
    \A i \in DOMAIN conversation_history :
        conversation_history[i].content # <<>>

\* C14: the history holds user and assistant messages only, and the message
\* list a chat call sent is the system prompt followed by the history the
\* call found and the call's own user message; no other element of the list
\* is a system message.
C14_SystemPromptInjectedNotStored ==
    /\ \A i \in DOMAIN conversation_history :
        conversation_history[i].role \in {"user", "assistant"}
    /\ \A t \in Tasks :
        outbound[t] # <<>>
        => /\ outbound[t] =
                <<SystemMessage(llm_config.system_prompt)>>
                \o Append(chat_entry[t].history, UserMessage(UserText(t)))
           /\ \A i \in 2..Len(outbound[t]) : outbound[t][i].role # "system"

\* A chat call that found an earlier exchange in the history.
C14_Witness ==
    \E t \in Tasks :
        /\ pc[t] \in LlmWait
        /\ Len(outbound[t]) = 4
        /\ Len(conversation_history) = 3

IsPrefix(a, b) == Len(a) <= Len(b) /\ SubSeq(b, 1, Len(a)) = a

\* C15: a step in which no clear_conversation returns leaves the old history
\* as a prefix of the new one: entries are only added, at the end.
C15_HistoryAppendOnly ==
    [][ (\A t \in Tasks : ~(pc[t] = "clear_conversation" /\ pc'[t] = "done"))
        => IsPrefix(conversation_history, conversation_history') ]_vars

\* A failed chat and a completed one, one after the other.
C15_Witness ==
    /\ Len(conversation_history) = 3
    /\ conversation_history[1].role = "user"
    /\ conversation_history[2].role = "user"
    /\ conversation_history[3].role = "assistant"
    /\ \E t \in Tasks : failed[t] = "LLM"

\* C16: every network call a command made went to a non-empty base URL.
C16_CallsHaveNonEmptyUrl ==
    \A t \in Tasks :
        \A i \in DOMAIN trace[t] :
            trace[t][i].kind = "call" => trace[t][i].lit # ""

\* The text a line hands to on_chunk, if any.
DeltaOf(line) ==
    IF starts_with(line, DataPrefix)
    THEN delta_content(SubSeq(line, Len(DataPrefix) + 1, Len(line)))
    ELSE None

\* The position of the first end marker among the lines, past the end if none.
FirstDone(ls) ==
    IF \E i \in DOMAIN ls : ls[i] = DoneLine
    THEN CHOOSE i \in DOMAIN ls :
            ls[i] = DoneLine /\ \A j \in 1..(i - 1) : ls[j] # DoneLine
    ELSE Len(ls) + 1

\* The texts of the lines before the first end marker, in order.
DeltasBeforeDone(ls) ==
    LET idx == SelectSeq([i \in 1..Len(ls) |-> i],
                         LAMBDA i : i < FirstDone(ls) /\ DeltaOf(ls[i]) # None)
    IN  [k \in 1..Len(idx) |-> DeltaOf(ls[idx[k]])[1]]

RECURSIVE Flatten(_)
Flatten(texts) ==
    IF texts = <<>> THEN <<>> ELSE Head(texts) \o Flatten(Tail(texts))

\* C17: receiving a chunk hands to on_chunk, and accumulates, exactly the
\* texts of its lines before its first [DONE] line, and leaves the call
\* reading the stream: the chunks that follow are processed in the same way,
\* whether or not an earlier chunk held [DONE].
C17_DoneEndsCurrentChunkOnly ==
    [][ (stream_pc = "streaming" /\ stream_rest # <<>> /\ Head(stream_rest).ok)
        => LET texts == DeltasBeforeDone(lines(Head(stream_rest).text)) IN
           /\ on_chunk' = on_chunk \o texts
           /\ full_response' = full_response \o Flatten(texts)
           /\ stream_pc' = "streaming"
           /\ stream_rest' = Tail(stream_rest) ]_vars

\* The first chunk held a text, [DONE] and a second text, the next chunk a
\* third text: the first and the third were delivered.
C17_Witness ==
    /\ stream_pc = "done"
    /\ stream_seen =
         << Chunk(<< DeltaLine(<<"o">>), DoneLine, DeltaLine(<<"x">>) >>),
            Chunk(<< DeltaLine(<<"k">>) >>) >>
    /\ on_chunk = << <<"o">>, <<"k">> >>
    /\ full_response = <<"o", "k">>

\* The texts of all chunks received, in arrival order.
RECURSIVE AllDeltas(_)
AllDeltas(chunks) ==
    IF chunks = <<>> THEN <<>>
    ELSE DeltasBeforeDone(lines(Head(chunks).text)) \o AllDeltas(Tail(chunks))

\* C18: when chat_stream has returned ok, the returned text is the
\* concatenation of the on_chunk arguments in call order, these are the texts
\* of the chunks received, in arrival order, the history is the one the call
\* found followed by the user message and one assistant message with the
\* returned text, finish_reason is "stop", and the request carried the system
\* prompt followed by the history with the user message.
C18_StreamResultIsWhatOnChunkSaw ==
    (stream_pc = "done" /\ stream_result.tag = "Ok")
    => /\ stream_result.value.text = Flatten(on_chunk)
       /\ on_chunk = AllDeltas(stream_seen)
       /\ conversation_history =
            stream_entry \o << UserMessage(stream_user),
                               AssistantMessage(stream_result.value.text) >>
       /\ stream_result.value.finish_reason = Some(<<"s", "t", "o", "p">>)
       /\ stream_messages =
            <<SystemMessage(llm_config.system_prompt)>>
            \o Append(stream_entry, UserMessage(stream_user))

\* A second streamed chat returned "ok" in three chunks.
C18_Witness ==
    /\ stream_pc = "done"
    /\ stream_result.tag = "Ok"
    /\ stream_result.value.text = <<"o", "k">>
    /\ Len(on_chunk) = 2
    /\ Len(stream_seen) = 3
    /\ stream_entry # <<>>

\* An answer that arrived with a success status and a JSON body.
ParsedAnswer(r) == r.sent /\ r.status \in 200..299 /\ r.json # None

IsJsonContentType(ct) ==
    ct \in {"application/json", "application/json; charset=utf-8"}

\* What a client reads from a member that may be missing or of another type.
StrOrNone(v) == IF v.t = "str" THEN <<v.s>> ELSE <<>>
StrOrEmpty(v) == IF v.t = "str" THEN v.s ELSE <<>>

\* C19: for the ASR call, the non-streaming LLM call and the JSON branch of
\* the TTS call, an answer with a non-success status or with a body that is
\* no JSON fails the call; an answer with a success status and a JSON body
\* never fails the ASR and LLM calls, whatever members it lacks: the ASR text
\* and the LLM content default to the empty text, language, duration and
\* finish_reason to absent; an ASR result has is_final true.
C19_EnvelopeStrictFieldsLenient ==
    LET r == probe.resp
        out == probe.out
    IN  /\ ( /\ probe.stage \in {"ASR", "LLM"}
                 \/ (probe.stage = "TTS" /\ IsJsonContentType(r.content_type))
             /\ r.sent
             /\ ~ParsedAnswer(r) )
           => ~out.ok
        /\ (probe.stage = "ASR" /\ ParsedAnswer(r))
           => /\ out.ok
              /\ out.value.text = StrOrEmpty(r.json[1].text)
              /\ out.value.language = StrOrNone(r.json[1].language)
              /\ out.value.duration =
                   (IF r.json[1].duration.t = "num"
                    THEN <<r.json[1].duration.n>> ELSE <<>>)
              /\ out.value.is_final
        /\ (probe.stage = "LLM" /\ ParsedAnswer(r))
           => /\ out.ok
              /\ out.value.text = StrOrEmpty(r.json[1].content)
              /\ out.value.finish_reason = StrOrNone(r.json[1].finish_reason)
              /\ out.history =
                   Append(ProbeHistory,
                          AssistantMessage(StrOrEmpty(r.json[1].content)))

\* The ASR call on the JSON object without members.
C19_Witness ==
    /\ probe.stage = "ASR"
    /\ probe.resp.status = 200
    /\ probe.resp.json = Doc(JNull, JNull, JNull, JNull, JNull, JNull)
    /\ probe.out.ok
    /\ probe.out.value =
         [text |-> <<>>, language |-> None, duration |-> None, is_final |-> TRUE]

\* C20: on an answer with a success status, synthesize takes the JSON branch
\* exactly when the content type contains application/json: there it succeeds
\* exactly when the body is JSON, its audio member is a string and that string
\* is well-formed base64, and returns the decoded bytes; a missing or
\* non-string audio member and a malformed base64 text are errors of their
\* own.  With any other content type, or none, it returns the body as it
\* arrived, undecoded.
C20_SynthesizeBranchesOnContentType ==
    LET r == probe.resp
        out == probe.out
    IN  (probe.stage = "TTS" /\ r.sent /\ r.status \in 200..299)
        => IF IsJsonContentType(r.content_type)
           THEN IF r.json = None
                THEN ~out.ok /\ out.err = "Failed to parse TTS response"
                ELSE IF r.json[1].audio.t # "str"
                THEN ~out.ok /\ out.err = "Missing audio data in response"
                ELSE IF ~base64_decode(r.json[1].audio.s).ok
                THEN ~out.ok /\ out.err = "Failed to decode audio data"
                ELSE /\ out.ok
                     /\ out.value.audio_data =
                          base64_decode(r.json[1].audio.s).bytes
           ELSE r.complete => (out.ok /\ out.value.audio_data = r.raw)

\* A JSON body under a content type spelled Application/JSON is returned as
\* it arrived.
C20_Witness ==
    /\ probe.stage = "TTS"
    /\ probe.resp.status = 200
    /\ probe.resp.content_type = "Application/JSON"
    /\ probe.resp.json = Doc(JNull, JNull, JNull, JNull, JNull, JNull)
    /\ probe.out.ok
    /\ probe.out.value.audio_data = RawJson

\* The number of network calls in a trace.
Calls(tr) == Cardinality({i \in DOMAIN tr : tr[i].kind = "call"})

\* C21: a turn calls each of the ASR, LLM and TTS endpoints at most once, a
\* text turn never calls the ASR endpoint, and a voice turn that returned
\* status "empty" made one call in all, to the ASR endpoint.
C21_NoStageCalledTwice ==
    \A t \in Tasks :
        cmd[t].name \in TurnCommands
        => /\ \A stage \in {"ASR", "LLM", "TTS"} : CallsIn(trace[t], stage) <= 1
           /\ cmd[t].name = "send_text_message" => ~CalledIn(trace[t], "ASR")
           /\ (pc[t] = "done" /\ result[t].value.status = "empty")
              => /\ Calls(trace[t]) = 1
                 /\ CallsIn(trace[t], "ASR") = 1

\* A voice turn failed in its ASR stage after one call, and another one
\* went through all three stages.
C21_Witness ==
    \E t, u \in Tasks :
        /\ cmd[t].name = "process_audio" /\ failed[t] = "ASR"
        /\ Calls(trace[t]) = 1
        /\ cmd[u].name = "process_audio" /\ pc[u] = "done"
        /\ Calls(trace[u]) = 3

\* C23: the step of process_audio on an argument that is not valid base64
\* returns the decode error and changes nothing else: the command has emitted
\* and called nothing, no guard changes hands, and the history, the
\* configuration and the listening flag stay as they are.
C23_DecodeErrorComesFirst ==
    [][ \A t \in Tasks :
          ( /\ pc[t] = "process_audio"
            /\ pc'[t] # pc[t]
            /\ ~base64_decode(cmd[t].text).ok )
          => /\ pc'[t] = "done"
             /\ result'[t] = Err("Failed to decode audio")
             /\ trace[t] = <<>> /\ trace'[t] = <<>>
             /\ UNCHANGED << guards, conversation_history, configs,
                             is_listening, outbound >> ]_vars

\* The decode error was returned while another turn held the LLM guard.
C23_Witness ==
    \E t, u \in Tasks :
        /\ cmd[t].name = "process_audio"
        /\ cmd[t].text = <<"U", "h", "=", "=">>
        /\ result[t] = Err("Failed to decode audio")
        /\ trace[t] = <<>>
        /\ llm_guard = u

\* C24: a turn that returned a ProcessingResult has status "complete" or
\* "empty"; audio_ready, status "complete", a present response and an emitted
\* tts-audio go together; the transcription is present; a text turn echoes
\* its message as the transcription and is never "empty".
C24_ProcessingResultShape ==
    \A t \in Tasks :
        (cmd[t].name \in TurnCommands /\ pc[t] = "done" /\ result[t].tag = "Ok")
        => LET v == result[t].value IN
           /\ v.status \in {"complete", "empty"}
           /\ v.audio_ready <=> v.status = "complete"
           /\ v.audio_ready <=> v.response # None
           /\ v.audio_ready <=> EmittedIn(trace[t], "tts-audio")
           /\ v.transcription # None
           /\ cmd[t].name = "send_text_message"
              => /\ v.transcription = Some(cmd[t].text)
                 /\ v.status # "empty"

\* A text turn on a whitespace message completed, a voice turn came back empty.
C24_Witness ==
    \E t, u \in Tasks :
        /\ cmd[t].name = "send_text_message" /\ pc[t] = "done"
        /\ result[t].value.status = "complete"
        /\ result[t].value.transcription = Some(<<" ">>)
        /\ cmd[u].name = "process_audio" /\ pc[u] = "done"
        /\ result[u].value.status = "empty"
        /\ ~result[u].value.audio_ready

\* C22: the flag is false at the start; a stop_listening step returns ok,
\* leaves the flag false and emits listening-stopped, whatever the flag was;
\* an is_listening step returns the flag and leaves it alone; the flag
\* changes in no step other than a start_listening or stop_listening that
\* returns ok; and, commands being awaited one by one, the flag is true
\* exactly when a start_listening returned ok after the last stop_listening.
C22_ListeningFlag ==
    /\ ~is_listening
    /\ [](is_listening <=> ok_starts = 1)
    /\ [][ \A t \in Tasks :
            /\ (pc[t] = "stop_listening" /\ pc'[t] # pc[t])
               => /\ pc'[t] = "done"
                  /\ result'[t] = OkUnit
                  /\ ~is_listening'
                  /\ trace'[t] = <<EmitUnit("listening-stopped")>>
            /\ (pc[t] = "is_listening" /\ pc'[t] # pc[t])
               => /\ pc'[t] = "done"
                  /\ result'[t] = OkBool(is_listening)
                  /\ UNCHANGED is_listening
            /\ (pc[t] \notin {"start_listening_store", "stop_listening"})
               => (pc'[t] # pc[t] => UNCHANGED is_listening) ]_vars

\* The last command is an is_listening that returned true: a start_listening
\* had returned ok and no stop_listening came after it.
C22_Witness ==
    \E t \in Tasks :
        /\ invoked = MaxSeqCmds
        /\ cmd[t].name = "is_listening"
        /\ pc[t] = "done"
        /\ result[t] = OkBool(TRUE)
        /\ ok_starts = 1

\* The URL of the last call in a trace.
LastCallUrl(tr) ==
    LET k == CHOOSE i \in DOMAIN tr :
                tr[i].kind = "call"
                /\ \A j \in DOMAIN tr : tr[j].kind = "call" => j <= i
    IN  tr[k].lit

\* C26: while a stage call is in flight, the URL of its client is the one the
\* call was made with (nothing changes it under the guard), and a step that
\* changes a client's URL finds no call on that client in flight.
C26_UrlFixedWhileCallInFlight ==
    /\ [](\A t \in Tasks :
            /\ pc[t] = "process_audio_asr_wait"
               => LastCallUrl(trace[t]) = asr_config.server_url
            /\ pc[t] \in LlmWait
               => LastCallUrl(trace[t]) = llm_config.server_url
            /\ pc[t] \in TtsWait
               => LastCallUrl(trace[t]) = tts_config.server_url)
    /\ [][ /\ asr_config' # asr_config
              => \A t \in Tasks : pc[t] # "process_audio_asr_wait"
           /\ llm_config' # llm_config
              => \A t \in Tasks : pc[t] \notin LlmWait
           /\ tts_config' # tts_config
              => \A t \in Tasks : pc[t] \notin TtsWait ]_vars

\* One turn called the LLM stage under the initial URL and, after a
\* configure_services in between, the TTS stage under the new one.
C26_Witness ==
    \E t \in Tasks :
        /\ cmd[t].name = "send_text_message"
        /\ pc[t] \in TtsWait
        /\ \E i \in DOMAIN trace[t] :
            trace[t][i] = Call("LLM", QwenConfigDefault.server_url, cmd[t].text)
        /\ LastCallUrl(trace[t]) = "http://c"

\* The roles of the history alternate, starting with the user.
Alternates(history) ==
    \A i \in DOMAIN history :
        history[i].role = (IF i % 2 = 1 THEN "user" ELSE "assistant")

\* C27: when no chat call is in flight the history has even length and its
\* roles alternate user, assistant, ...
C27_HistoryAlignedBetweenChats ==
    (\A t \in Tasks : pc[t] \notin LlmWait)
    => /\ Len(conversation_history) % 2 = 0
       /\ Alternates(conversation_history)

\* C28: a command that is not running holds no guard, also after a stage of
\* it failed; and while a task waits for a guard, the guard is free or held
\* by a task whose call on that client is in flight.
C28_NoGuardHeldAfterReturn ==
    /\ \A t \in Tasks :
        (pc[t] \in {"idle", "done"})
        => (asr_guard # t /\ llm_guard # t /\ tts_guard # t)
    /\ asr_guard # NoOwner => pc[asr_guard] = "process_audio_asr_wait"
    /\ llm_guard # NoOwner => pc[llm_guard] \in LlmWait
    /\ tts_guard # NoOwner => pc[tts_guard] \in TtsWait

\* A turn failed in its TTS stage and a later turn holds the TTS guard.
C28_Witness ==
    \E t, u \in Tasks :
        /\ t # u
        /\ failed[t] = "TTS" /\ pc[t] = "done"
        /\ tts_guard = u

\* C30: a clear_conversation takes effect only when no chat call is in
\* flight, and the history is empty when it returns; in the history every
\* assistant message directly follows a user message.
C30_ClearAtomicWithChat ==
    /\ [](\A i \in DOMAIN conversation_history :
            conversation_history[i].role = "assistant"
            => (i > 1 /\ conversation_history[i - 1].role = "user"))
    /\ [][ \A t \in Tasks :
            (pc[t] = "clear_conversation" /\ pc'[t] # pc[t])
            => /\ \A u \in Tasks : pc[u] \notin LlmWait
               /\ llm_guard = NoOwner
               /\ pc'[t] = "done"
               /\ result'[t] = OkUnit
               /\ conversation_history' = <<>> ]_vars

\* A clear_conversation removed the two messages of a voice turn that is
\* between its LLM and TTS stages.
C30_Witness ==
    \E t, u \in Tasks :
        /\ t # u
        /\ cmd[t].name = "process_audio"
        /\ pc[t] \in TtsLock \cup TtsWait
        /\ cmd[u].name = "clear_conversation" /\ pc[u] = "done"
        /\ cleared = [phase |-> "cleared", wiped |-> 2]

\* Twice a number given by its little-endian bytes, exactly: one byte longer.
RECURSIVE DoubleDigits(_, _)
DoubleDigits(digits, carry) ==
    IF digits = <<>> THEN <<carry>>
    ELSE << (2 * Head(digits) + carry) % 256 >>
         \o DoubleDigits(Tail(digits), (2 * Head(digits) + carry) \div 256)

\* C25: samples_to_wav returns a container of 44 + 2*len(S) bytes whose header
\* reads RIFF, the total length minus 8, WAVE, fmt, 16, PCM, 1 channel, the
\* sample rate R, the byte rate 2*R, block align 2, 16 bits, data, 2*len(S),
\* for every buffer and every 32-bit rate.
C25_WavHeaderConsistent ==
    wav.called
    => LET b == wav.out.bytes
           n == Len(wav.samples)
       IN  /\ ~wav.out.panicked
           /\ Len(b) = 44 + 2 * n
           /\ SubSeq(b, 1, 4) = RiffTag
           /\ SubSeq(b, 5, 8) = U32(Len(b) - 8)
           /\ SubSeq(b, 9, 16) = WaveTag \o FmtTag
           /\ SubSeq(b, 17, 20) = U32(16)
           /\ SubSeq(b, 21, 22) = U16(1)
           /\ SubSeq(b, 23, 24) = U16(1)
           /\ SubSeq(b, 25, 28) = wav.sample_rate
           /\ SubSeq(b, 29, 32) \o <<0>> = DoubleDigits(wav.sample_rate, 0)
           /\ SubSeq(b, 33, 34) = U16(2)
           /\ SubSeq(b, 35, 36) = U16(16)
           /\ SubSeq(b, 37, 40) = DataTag
           /\ SubSeq(b, 41, 44) = U32(2 * n)

\* C29: under the scheduling assumptions, every command that was invoked
\* returns; no state is reached from which waiting tasks never leave.
C29_EveryCommandReturns ==
    \A t \in Tasks : (pc[t] \notin {"idle", "done"}) ~> (pc[t] = "done")

\* A voice turn waits for the LLM guard while a text turn holds it with its
\* chat request in flight.
C29_Witness ==
    \E t, u \in Tasks :
        /\ t # u
        /\ pc[t] = "process_audio_llm_lock"
        /\ pc[u] = "send_text_message_llm_wait"
        /\ llm_guard = u

\* A data line whose payload is a text delta.
IsTextLine(line) == \E c \in { <<>>, <<"o">>, <<"k">>, <<"x">> } : line = DeltaLine(c)

\* The lines that carry nothing: no "data: " prefix (comments, the empty
\* lines between events, the tail of a line cut in two), or a data line that
\* is neither the end marker nor a text delta: its payload is no JSON (the
\* head of a line cut in two included) or JSON without
\* choices[0].delta.content.
Skipped(line) ==
    \/ ~starts_with(line, DataPrefix)
    \/ line \in { BadJsonLine, NoContentLine }
    \/ line # DoneLine /\ ~IsTextLine(line)

\* The texts a chunk delivers when read line by line: skipped lines are
\* passed over, the end marker stops the reading, every other line is a text
\* delta and delivers its text.
RECURSIVE TextsPassingSkipped(_)
TextsPassingSkipped(ls) ==
    IF ls = <<>> THEN <<>>
    ELSE IF Skipped(Head(ls)) THEN TextsPassingSkipped(Tail(ls))
    ELSE IF Head(ls) = DoneLine THEN <<>>
    ELSE << SubSeq(Head(ls), Len(DataPrefix) + Len(DeltaOpen) + 1,
                   Len(Head(ls)) - Len(DeltaClose)) >>
         \o TextsPassingSkipped(Tail(ls))

\* C32: a chunk's lines without "data: " prefix, with a payload that is no
\* JSON, or with JSON that has no choices[0].delta.content add nothing to the
\* accumulator, cause no on_chunk call and do not fail the call; the lines
\* after them are processed as if the skipped lines were not there.
C32_SkippedLinesAreInert ==
    [][ (stream_pc = "streaming" /\ stream_rest # <<>> /\ Head(stream_rest).ok)
        => LET ls == lines(Head(stream_rest).text)
               kept == SelectSeq(ls, LAMBDA line : ~Skipped(line))
           IN  /\ on_chunk' = on_chunk \o TextsPassingSkipped(ls)
               /\ Len(on_chunk') - Len(on_chunk) <= Len(kept)
               /\ full_response' = full_response \o Flatten(TextsPassingSkipped(kept))
               /\ stream_result' = stream_result
               /\ stream_pc' = "streaming" ]_vars

\* A chunk with a comment, a payload that is no JSON, a payload without text
\* and then an empty text delta was read: on_chunk was called once, for the
\* line that followed the three, and the call returned ok.
C32_Witness ==
    /\ stream_pc = "done"
    /\ stream_result.tag = "Ok"
    /\ stream_seen =
         << Chunk(<< CommentLine, BadJsonLine, NoContentLine, DeltaLine(<<>>) >>) >>
    /\ on_chunk = << <<>> >>

\* The bytes of the chunks received, put together again.
RECURSIVE Body(_)
Body(chunks) ==
    IF chunks = <<>> THEN <<>> ELSE Head(chunks).text \o Body(Tail(chunks))

\* C31: when chat_stream has returned ok on a body without end marker, the
\* on_chunk calls and the returned text are the ones the same bytes give
\* when they arrive in one chunk, wherever the transport cut them.
C31_ChunkingDoesNotMatter ==
    ( /\ stream_pc = "done"
      /\ stream_result.tag = "Ok"
      /\ \A i \in DOMAIN lines(Body(stream_seen)) :
             lines(Body(stream_seen))[i] # DoneLine )
    => LET whole == chat_stream_chunk(lines(Body(stream_seen))) IN
       /\ on_chunk = whole
       /\ stream_result.value.text = Flatten(whole)

\* The three base URLs are the ones of one configuration.
UrlsFrom(config) ==
    /\ asr_config.server_url = config.asr_url
    /\ llm_config.server_url = config.llm_url
    /\ tts_config.server_url = config.tts_url

\* C33: when two configure_services calls with different configurations were
\* the only commands and both have returned, the three base URLs all come
\* from the same one of the two.
C33_ConfigureServicesAtomic ==
    \A t, u \in Tasks :
        ( /\ t # u
          /\ invoked = 2
          /\ pc[t] = "done" /\ cmd[t].name = "configure_services"
          /\ pc[u] = "done" /\ cmd[u].name = "configure_services"
          /\ cmd[t].config # cmd[u].config )
        => (UrlsFrom(cmd[t].config) \/ UrlsFrom(cmd[u].config))

=============================================================================
